---- MODULE Spec2Model ----
(***************************************************************************)
(* A model of the trust/safety core of the SENTINEL repository:            *)
(*   - FreezeProtocol      (src/sentinel/protocols/freeze_protocol.py)     *)
(*   - TripleCheckProtocol (src/sentinel/protocols/triple_check.py)        *)
(*   - WestminsterWatch    (src/sentinel/agents/brain/westminster_watch.py)*)
(* The three classes are independent objects in the source, so each has    *)
(* its own specification over its own variables.  A coroutine is modelled  *)
(* as a task with a program position: one step per loop iteration or       *)
(* collaborator call, the collaborator's outcome drawn from a small set.   *)
(***************************************************************************)
EXTENDS Integers, Sequences, FiniteSets, TLC

\* ------------------------------------------------------------------------
\* Bounds of the model
\* ------------------------------------------------------------------------
\* Freeze events per behaviour of Spec, and of SpecHistory.
MaxHistory == 1
MaxEvents == 2
\* The last tick of the clock.
MaxClock == 2
\* Sources per registry (besides the default registries), and verifications
\* per behaviour.
MaxSources == 2
MaxVerifications == 2

\* ------------------------------------------------------------------------
\* Program constants and enumerations
\* ------------------------------------------------------------------------
max_auto_recovery_attempts == 3
auto_recovery_enabled == TRUE
min_sources_required == 2

CompNames == {"hansard", "veritas"}
Absent == "<absent>"

FreezeReason ==
    {"ARM_FAILURE", "VERIFICATION_FAILURE", "DATA_INTEGRITY", "API_ERROR",
     "ANOMALY_DETECTED", "HUMAN_TRIGGERED", "SECURITY_CONCERN"}

\* The reasons trigger_freeze is called with: one for each row of the
\* recovery table.
ReasonInputs ==
    {"ARM_FAILURE", "DATA_INTEGRITY", "API_ERROR", "SECURITY_CONCERN",
     "HUMAN_TRIGGERED"}

\* A registered component object is known to the protocol only through the
\* capabilities hasattr() finds on it.
Arm == {"pause", "resume", "health_check"}
CachedArm == {"pause", "resume", "health_check", "clear_cache"}
Opaque == {}

\* The registrations tried: each capability is present on one component and
\* missing on another, and one name is registered with two objects.
RegisterInputs ==
    {<<"hansard", Arm>>, <<"veritas", CachedArm>>, <<"veritas", Opaque>>}

\* What a collaborator call can do: return or raise.
CallOutcomes == {"ok", "raise"}
\* What health_check() can do: return a dict whose 'status' is one of the
\* contract's values, or raise.
HealthOutcomes == {"ACTIVE", "PAUSED", "raise"}

\* The authorization argument of unfreeze: absent (None), empty, or given.
NoneAuth == "<None>"
Authorizations == {NoneAuth, "", "admin"}
AffectedInputs == {<<>>, <<"hansard">>}
TriggerSources == {"hansard"}
Tasks == {"t1", "t2"}

VARIABLES
    state,              \* FreezeProtocol.state
    current_freeze,     \* FreezeProtocol.current_freeze: 0 is None, else the
                        \* position in freeze_history of the (shared) object
    components,         \* FreezeProtocol.components, in insertion order
    component_status,   \* FreezeProtocol.component_status
    freeze_history,     \* FreezeProtocol.freeze_history
    recovery_attempts,  \* FreezeProtocol.recovery_attempts
    brain_callback,     \* FreezeProtocol.brain_callback is set
    now,                \* the wall clock, in ticks
    task                \* the coroutines running FreezeProtocol operations

fpvars ==
    <<state, current_freeze, components, component_status, freeze_history,
      recovery_attempts, brain_callback, now, task>>

\* ------------------------------------------------------------------------
\* FreezeProtocol: helpers
\* ------------------------------------------------------------------------
Keys(cs) == [i \in 1..Len(cs) |-> cs[i].name]

HasKey(cs, n) == \E i \in 1..Len(cs) : cs[i].name = n

Lookup(cs, n) == cs[CHOOSE i \in 1..Len(cs) : cs[i].name = n].kind

hasattr(n, a) == a \in Lookup(components, n)

\* Mutant: an assignment to a key always adds an entry.
DictSet_Append(cs, n, k) == Append(cs, [name |-> n, kind |-> k])

\* d[n] = k: the entry of an existing key is replaced where it stands, a new
\* key goes last.
DictSet(cs, n, k) ==
    IF HasKey(cs, n)
    THEN [i \in 1..Len(cs) |->
            IF cs[i].name = n THEN [name |-> n, kind |-> k] ELSE cs[i]]
    ELSE Append(cs, [name |-> n, kind |-> k])

DictDel(cs, n) == SelectSeq(cs, LAMBDA c : c.name # n)

Truthy(authorization) == authorization \notin {NoneAuth, ""}

\* strftime('%Y%m%d_%H%M%S') keeps the whole seconds of the clock, which
\* ticks twice a second.
FormatEventId(t) == t \div 2

NoReport ==
    [valid |-> FALSE, system_state |-> "", freeze_event |-> 0,
     component_status |-> [n \in CompNames |-> Absent],
     active |-> 0, total |-> 0,
     recommended_actions |-> <<>>, human_intervention_required |-> FALSE]

NoRet == [kind |-> "none", event |-> 0, bool |-> FALSE, report |-> NoReport]

IdleTask ==
    [pc |-> "idle", op |-> "none", args |-> <<>>, stack |-> <<>>, iter |-> <<>>,
     acts |-> <<>>, auth |-> "", ev |-> 0, diagnostics |-> NoReport,
     post_diagnostics |-> NoReport, ret |-> NoRet, calls |-> <<>>]

\* A task entering a public operation with its arguments.
Begin(op, args) == [IdleTask EXCEPT !.op = op, !.args = args]

\* The operation is over: its locals are gone, its result (and the record of
\* the collaborator calls it made) is there for the caller to take.
Return(tk, kind, event, bool, report) ==
    [IdleTask EXCEPT
        !.pc = "done", !.op = tk.op, !.args = tk.args, !.calls = tk.calls,
        !.ret = [kind |-> kind, event |-> event, bool |-> bool,
                 report |-> report]]

ReturnVoid(tk) == Return(tk, "void", 0, FALSE, NoReport)
ReturnEvent(tk, e) == Return(tk, "event", e, FALSE, NoReport)
ReturnBool(tk, b) == Return(tk, "bool", 0, b, NoReport)
ReturnReport(tk, r) == Return(tk, "report", 0, FALSE, r)
Raise(tk) == Return(tk, "raise", 0, FALSE, NoReport)

\* The record of a collaborator call: what was called, on whom, and how it
\* ended.
Called(tk, what, n, out) ==
    [tk EXCEPT !.calls = Append(@, <<what, n, out>>)]

Pop(s) == SubSeq(s, 1, Len(s) - 1)
Top(s) == s[Len(s)]

FPInit ==
    /\ state = "ACTIVE"
    /\ current_freeze = 0
    /\ components = <<>>
    /\ component_status = [n \in CompNames |-> Absent]
    /\ freeze_history = <<>>
    /\ recovery_attempts = 0
    /\ brain_callback \in BOOLEAN
    /\ now = 0
    /\ task = [t \in Tasks |-> IdleTask]

\* ------------------------------------------------------------------------
\* FreezeProtocol: registration
\* ------------------------------------------------------------------------
InitialStatus == "ACTIVE"

register_component(t, name, kind) ==
    /\ components' = DictSet(components, name, kind)
    /\ component_status' = [component_status EXCEPT ![name] = InitialStatus]
    /\ task' = [task EXCEPT ![t] = ReturnVoid(Begin("register_component", <<name>>))]
    /\ UNCHANGED <<state, current_freeze, freeze_history, recovery_attempts,
                   brain_callback, now>>

unregister_component(t, name) ==
    /\ IF HasKey(components, name)
       THEN /\ components' = DictDel(components, name)
            /\ component_status' = [component_status EXCEPT ![name] = Absent]
       ELSE UNCHANGED <<components, component_status>>
    /\ task' = [task EXCEPT ![t] = ReturnVoid(Begin("unregister_component", <<name>>))]
    /\ UNCHANGED <<state, current_freeze, freeze_history, recovery_attempts,
                   brain_callback, now>>

\* datetime.now() moves on.  The protocol reads the clock in two places, as
\* trigger_freeze starts and as unfreeze resolves the event, so it is enough
\* to let time pass just before those.
Tick ==
    /\ now < MaxClock
    /\ \A t \in Tasks :
          \/ task[t].pc = "idle"
          \/ task[t].pc = "resume" /\ task[t].iter = <<>>
    /\ now' = now + 1
    /\ UNCHANGED <<state, current_freeze, components, component_status,
                   freeze_history, recovery_attempts, brain_callback, task>>

\* ------------------------------------------------------------------------
\* FreezeProtocol.trigger_freeze
\* ------------------------------------------------------------------------
\* Mutant: the guard of line 150 lost.
AlreadyFrozen_Never == FALSE

AlreadyFrozen == state = "FROZEN"

\* Mutant: an event is born resolved.
NewFreezeEvent_Resolved(reason, trigger_source, affected_components) ==
    [event_id |-> FormatEventId(now),
     reason |-> reason,
     trigger_source |-> trigger_source,
     affected_components |->
        IF affected_components # <<>> THEN affected_components
        ELSE Keys(components),
     resolved |-> TRUE,
     resolution_time |-> -1,
     resolution_action |-> NoneAuth]

\* FreezeEvent(...), lines 157-164, with the defaults of lines 60-62.
NewFreezeEvent(reason, trigger_source, affected_components) ==
    [event_id |-> FormatEventId(now),
     reason |-> reason,
     trigger_source |-> trigger_source,
     affected_components |->
        IF affected_components # <<>> THEN affected_components
        ELSE Keys(components),
     resolved |-> FALSE,
     resolution_time |-> -1,
     resolution_action |-> NoneAuth]

trigger_freeze(t, reason, trigger_source, affected_components) ==
    IF AlreadyFrozen
    THEN /\ task' = [task EXCEPT ![t] =
                ReturnEvent(Begin("trigger_freeze", <<reason>>), current_freeze)]
         /\ UNCHANGED <<state, current_freeze, components, component_status,
                        freeze_history, recovery_attempts, brain_callback, now>>
    ELSE /\ state' = "FROZEN"
         /\ freeze_history' = Append(freeze_history,
                NewFreezeEvent(reason, trigger_source, affected_components))
         /\ current_freeze' = Len(freeze_history) + 1
         /\ task' = [task EXCEPT ![t] =
                [Begin("trigger_freeze", <<reason>>) EXCEPT
                    !.pc = "halt",
                    !.stack = <<"trigger_freeze", "_halt_components">>,
                    !.iter = Keys(components),
                    !.ev = Len(freeze_history) + 1]]
         /\ UNCHANGED <<components, component_status, recovery_attempts,
                        brain_callback, now>>

\* Mutant: a halted component keeps a status of ACTIVE.
HaltedStatus_Active(out) == IF out = "ok" THEN "ACTIVE" ELSE "ERROR"

\* One iteration of the loop of _halt_components.
HaltedStatus(out) == IF out = "ok" THEN "PAUSED" ELSE "ERROR"

\* Mutant: the pause loop is left before its first iteration.
HaltStep_Skip(t) ==
    /\ task[t].pc = "halt"
    /\ task[t].iter # <<>>
    /\ task' = [task EXCEPT ![t] = [@ EXCEPT !.iter = <<>>]]
    /\ UNCHANGED <<state, current_freeze, components, component_status,
                   freeze_history, recovery_attempts, brain_callback, now>>

\* Lines 195-203.
HaltStep(t) ==
    /\ task[t].pc = "halt"
    /\ task[t].iter # <<>>
    /\ LET name == Head(task[t].iter)
           next == [task[t] EXCEPT !.iter = Tail(@)]
       IN  IF hasattr(name, "pause")
           THEN \E out \in CallOutcomes :
                  /\ component_status' =
                        [component_status EXCEPT ![name] = HaltedStatus(out)]
                  /\ task' = [task EXCEPT ![t] = Called(next, "pause", name, out)]
           ELSE /\ component_status' =
                        [component_status EXCEPT ![name] = HaltedStatus("ok")]
                /\ task' = [task EXCEPT ![t] = next]
    /\ UNCHANGED <<state, current_freeze, components, freeze_history,
                   recovery_attempts, brain_callback, now>>

HaltDone(t) ==
    /\ task[t].pc = "halt"
    /\ task[t].iter = <<>>
    /\ task' = [task EXCEPT ![t] =
            [@ EXCEPT !.pc = "cb_freeze", !.stack = Pop(@)]]
    /\ UNCHANGED <<state, current_freeze, components, component_status,
                   freeze_history, recovery_attempts, brain_callback, now>>

\* The entry of run_diagnostics, from a caller or as a public operation.
EnterDiagnostics(tk) ==
    [tk EXCEPT !.pc = "diag", !.stack = Append(@, "run_diagnostics"),
               !.iter = Keys(components)]

\* await self.brain_callback("freeze", freeze_event), then run_diagnostics.
CallbackFreeze(t) ==
    /\ task[t].pc = "cb_freeze"
    /\ IF brain_callback
       THEN \E out \in CallOutcomes :
              task' = [task EXCEPT ![t] =
                IF out = "ok"
                THEN EnterDiagnostics(Called(@, "callback", "freeze", out))
                ELSE Raise(Called(@, "callback", "freeze", out))]
       ELSE task' = [task EXCEPT ![t] = EnterDiagnostics(@)]
    /\ UNCHANGED <<state, current_freeze, components, component_status,
                   freeze_history, recovery_attempts, brain_callback, now>>

\* ------------------------------------------------------------------------
\* FreezeProtocol.run_diagnostics
\* ------------------------------------------------------------------------
\* health.get('status', 'UNKNOWN'), or the except branch's f'ERROR: {e}'.
HealthStatus(h) ==
    CASE h = "raise" -> "ERROR: e"
      [] h = "nostatus" -> "UNKNOWN"
      [] OTHER -> h

ProbedStatus(name, h) ==
    IF hasattr(name, "health_check") THEN HealthStatus(h) ELSE "NO_HEALTH_CHECK"

DiagStep(t) ==
    /\ task[t].pc = "diag"
    /\ task[t].iter # <<>>
    /\ LET name == Head(task[t].iter)
           next == [task[t] EXCEPT !.iter = Tail(@)]
       IN  IF hasattr(name, "health_check")
           THEN \E h \in HealthOutcomes :
                  /\ component_status' =
                        [component_status EXCEPT ![name] = ProbedStatus(name, h)]
                  /\ task' = [task EXCEPT ![t] =
                        Called(next, "health_check", name, h)]
           ELSE /\ component_status' =
                        [component_status EXCEPT ![name] = ProbedStatus(name, "ok")]
                /\ task' = [task EXCEPT ![t] = next]
    /\ UNCHANGED <<state, current_freeze, components, freeze_history,
                   recovery_attempts, brain_callback, now>>

\* _calculate_integrity_score: the score is active / total, 0.0 for an empty
\* registry; kept as the two counts.
Registered(cstat) == {n \in CompNames : cstat[n] # Absent}

\* Mutant: every registered component counts, whatever its status.
ActiveCount_Registered(cstat) == Cardinality(Registered(cstat))

ActiveCount(cstat) == Cardinality({n \in Registered(cstat) : cstat[n] = "ACTIVE"})

TotalCount(cstat) == Cardinality(Registered(cstat))

\* Mutant: one ACTIVE component is enough.
IntegrityOk_AnyActive(active, total) == active > 0

\* score >= 0.8
IntegrityOk(active, total) == total > 0 /\ 10 * active >= 8 * total

\* Mutant: every reason gets the fallback action.
ActionsFor_Fallback(reason) == <<"FULL_DIAGNOSTIC">>

\* The if/elif chain of _determine_recovery_actions.
ActionsFor(reason) ==
    CASE reason = "ARM_FAILURE" -> <<"RESTART_ARM">>
      [] reason = "DATA_INTEGRITY" -> <<"ROLLBACK_DATA", "HUMAN_REVIEW">>
      [] reason = "API_ERROR" -> <<"CLEAR_CACHE", "RESTART_ARM">>
      [] reason = "SECURITY_CONCERN" -> <<"FULL_DIAGNOSTIC", "HUMAN_REVIEW">>
      [] OTHER -> <<"FULL_DIAGNOSTIC">>

determine_recovery_actions ==
    IF current_freeze = 0 THEN <<>>
    ELSE ActionsFor(freeze_history[current_freeze].reason)

\* Mutant: the reason of the freeze is not looked at.
human_needed_AttemptsOnly == recovery_attempts >= max_auto_recovery_attempts

\* "Check if human needed", lines 235-242.
human_needed ==
    \/ recovery_attempts >= max_auto_recovery_attempts
    \/ /\ current_freeze # 0
       /\ freeze_history[current_freeze].reason
            \in {"SECURITY_CONCERN", "DATA_INTEGRITY"}

DiagnosticReport ==
    [valid |-> TRUE,
     system_state |-> state,
     freeze_event |-> current_freeze,
     component_status |-> component_status,
     active |-> ActiveCount(component_status),
     total |-> TotalCount(component_status),
     recommended_actions |-> determine_recovery_actions,
     human_intervention_required |-> human_needed]

\* ------------------------------------------------------------------------
\* FreezeProtocol.unfreeze: entry and return
\* ------------------------------------------------------------------------
\* unfreeze returns to its caller: a public call returns the boolean; inside
\* _attempt_auto_recovery its result is dropped, the recovery returns True
\* and trigger_freeze returns its freeze_event.
UnfreezeReturn(tk, b) ==
    IF tk.stack = <<>> THEN ReturnBool(tk, b) ELSE ReturnEvent(tk, tk.ev)

\* Mutant: the authorization is checked before the state.
NotFrozen_Never == FALSE

NotFrozen == state # "FROZEN"

\* Mutant: only an absent authorization is refused, an empty one passes.
Unauthorized_OnlyNone(authorization) == authorization = NoneAuth

Unauthorized(authorization) == ~Truthy(authorization)

\* Mutant: the resume loop is entered with the state left FROZEN.
EnterUnfreeze_StaysFrozen(t, tk, authorization) ==
    IF NotFrozen
    THEN /\ task' = [task EXCEPT ![t] = UnfreezeReturn(tk, TRUE)]
         /\ UNCHANGED state
    ELSE IF Unauthorized(authorization)
    THEN /\ task' = [task EXCEPT ![t] = UnfreezeReturn(tk, FALSE)]
         /\ UNCHANGED state
    ELSE /\ UNCHANGED state
         /\ task' = [task EXCEPT ![t] =
                [tk EXCEPT !.pc = "resume", !.stack = Append(@, "unfreeze"),
                           !.iter = Keys(components), !.auth = authorization]]

\* Lines 388-399: the two refusals, or RECOVERING and the resume loop.
EnterUnfreeze(t, tk, authorization) ==
    IF NotFrozen
    THEN /\ task' = [task EXCEPT ![t] = UnfreezeReturn(tk, TRUE)]
         /\ UNCHANGED state
    ELSE IF Unauthorized(authorization)
    THEN /\ task' = [task EXCEPT ![t] = UnfreezeReturn(tk, FALSE)]
         /\ UNCHANGED state
    ELSE /\ state' = "RECOVERING"
         /\ task' = [task EXCEPT ![t] =
                [tk EXCEPT !.pc = "resume", !.stack = Append(@, "unfreeze"),
                           !.iter = Keys(components), !.auth = authorization]]

\* The end of run_diagnostics: the report goes to whoever called it.
DiagDone(t) ==
    /\ task[t].pc = "diag"
    /\ task[t].iter = <<>>
    /\ LET tk == [task[t] EXCEPT !.stack = Pop(@)]
       IN  IF tk.stack = <<>>
           THEN /\ task' = [task EXCEPT ![t] =
                    ReturnReport(tk, DiagnosticReport)]
                /\ UNCHANGED state
           ELSE IF Top(tk.stack) = "trigger_freeze"
           THEN /\ task' = [task EXCEPT ![t] =
                    IF auto_recovery_enabled
                    THEN [tk EXCEPT !.diagnostics = DiagnosticReport,
                                    !.pc = "recover",
                                    !.stack = Append(@, "_attempt_auto_recovery")]
                    ELSE ReturnEvent(tk, tk.ev)]
                /\ UNCHANGED state
           ELSE \* _attempt_auto_recovery: post_diagnostics
                IF IntegrityOk(DiagnosticReport.active, DiagnosticReport.total)
                THEN EnterUnfreeze(t,
                        [tk EXCEPT !.post_diagnostics = DiagnosticReport],
                        "auto_recovery")
                ELSE /\ task' = [task EXCEPT ![t] = ReturnEvent(
                            [tk EXCEPT !.post_diagnostics = DiagnosticReport],
                            tk.ev)]
                     /\ UNCHANGED state
    /\ UNCHANGED <<current_freeze, components, component_status, freeze_history,
                   recovery_attempts, brain_callback, now>>

run_diagnostics(t) ==
    /\ task' = [task EXCEPT ![t] = EnterDiagnostics(Begin("run_diagnostics", <<>>))]
    /\ UNCHANGED <<state, current_freeze, components, component_status,
                   freeze_history, recovery_attempts, brain_callback, now>>

\* ------------------------------------------------------------------------
\* FreezeProtocol._attempt_auto_recovery and _execute_recovery_action
\* ------------------------------------------------------------------------
SkipRecovery(diagnostics) ==
    \/ diagnostics.human_intervention_required
    \/ recovery_attempts >= max_auto_recovery_attempts

AttemptAutoRecovery(t) ==
    /\ task[t].pc = "recover"
    /\ IF SkipRecovery(task[t].diagnostics)
       THEN /\ task' = [task EXCEPT ![t] = ReturnEvent(@, @.ev)]
            /\ UNCHANGED recovery_attempts
       ELSE /\ recovery_attempts' = recovery_attempts + 1
            /\ task' = [task EXCEPT ![t] =
                    [@ EXCEPT !.pc = "act",
                              !.acts = task[t].diagnostics.recommended_actions]]
    /\ UNCHANGED <<state, current_freeze, components, component_status,
                   freeze_history, brain_callback, now>>

\* Mutant: RESTART_ARM walks every registered component.
RestartTargets_All == Keys(components)

\* The components RESTART_ARM walks: the current event's affected list.
RestartTargets ==
    IF current_freeze # 0
    THEN freeze_history[current_freeze].affected_components
    ELSE <<>>

\* The loop over diagnostics.recommended_actions: the next action starts, or,
\* the list done, the post-recovery diagnostics start.
ActStep(t) ==
    /\ task[t].pc = "act"
    /\ task' = [task EXCEPT ![t] =
        IF @.acts = <<>> THEN EnterDiagnostics(@)
        ELSE CASE Head(@.acts) = "RESTART_ARM" ->
                    [@ EXCEPT !.pc = "restart", !.iter = RestartTargets]
               [] Head(@.acts) = "CLEAR_CACHE" ->
                    [@ EXCEPT !.pc = "clear", !.iter = Keys(components)]
               [] Head(@.acts) \in {"ROLLBACK_DATA", "FULL_DIAGNOSTIC"} ->
                    [@ EXCEPT !.acts = Tail(@)]
               [] OTHER -> \* HUMAN_REVIEW reports failure
                    ReturnEvent(@, @.ev)]
    /\ UNCHANGED <<state, current_freeze, components, component_status,
                   freeze_history, recovery_attempts, brain_callback, now>>

RestartStep(t) ==
    /\ task[t].pc = "restart"
    /\ task[t].iter # <<>>
    /\ LET name == Head(task[t].iter)
           next == [task[t] EXCEPT !.iter = Tail(@)]
       IN  IF HasKey(components, name) /\ hasattr(name, "resume")
           THEN \E out \in CallOutcomes :
                  task' = [task EXCEPT ![t] =
                    IF out = "ok" THEN Called(next, "resume", name, out)
                    ELSE ReturnEvent(Called(next, "resume", name, out), next.ev)]
           ELSE task' = [task EXCEPT ![t] = next]
    /\ UNCHANGED <<state, current_freeze, components, component_status,
                   freeze_history, recovery_attempts, brain_callback, now>>

ClearStep(t) ==
    /\ task[t].pc = "clear"
    /\ task[t].iter # <<>>
    /\ LET name == Head(task[t].iter)
           next == [task[t] EXCEPT !.iter = Tail(@)]
       IN  IF hasattr(name, "clear_cache")
           THEN \E out \in CallOutcomes :
                  task' = [task EXCEPT ![t] =
                    IF out = "ok" THEN Called(next, "clear_cache", name, out)
                    ELSE ReturnEvent(Called(next, "clear_cache", name, out),
                                     next.ev)]
           ELSE task' = [task EXCEPT ![t] = next]
    /\ UNCHANGED <<state, current_freeze, components, component_status,
                   freeze_history, recovery_attempts, brain_callback, now>>

\* RESTART_ARM or CLEAR_CACHE ran through its loop: the action returns True.
ActionDone(t) ==
    /\ task[t].pc \in {"restart", "clear"}
    /\ task[t].iter = <<>>
    /\ task' = [task EXCEPT ![t] = [@ EXCEPT !.pc = "act", !.acts = Tail(@)]]
    /\ UNCHANGED <<state, current_freeze, components, component_status,
                   freeze_history, recovery_attempts, brain_callback, now>>

\* ------------------------------------------------------------------------
\* FreezeProtocol.unfreeze
\* ------------------------------------------------------------------------
unfreeze(t, authorization) ==
    /\ EnterUnfreeze(t, Begin("unfreeze", <<authorization>>), authorization)
    /\ UNCHANGED <<current_freeze, components, component_status, freeze_history,
                   recovery_attempts, brain_callback, now>>

\* Mutant: the except branch of the resume loop records ACTIVE too.
ResumedStatus_AlwaysActive(out) == "ACTIVE"

ResumedStatus(out) == IF out = "ok" THEN "ACTIVE" ELSE "ERROR"

ResumeStep(t) ==
    /\ task[t].pc = "resume"
    /\ task[t].iter # <<>>
    /\ LET name == Head(task[t].iter)
           next == [task[t] EXCEPT !.iter = Tail(@)]
       IN  IF hasattr(name, "resume")
           THEN \E out \in CallOutcomes :
                  /\ component_status' =
                        [component_status EXCEPT ![name] = ResumedStatus(out)]
                  /\ task' = [task EXCEPT ![t] = Called(next, "resume", name, out)]
           ELSE /\ component_status' =
                        [component_status EXCEPT ![name] = ResumedStatus("ok")]
                /\ task' = [task EXCEPT ![t] = next]
    /\ UNCHANGED <<state, current_freeze, components, freeze_history,
                   recovery_attempts, brain_callback, now>>

\* Mutant: the event is not marked resolved.
Resolve_Forget(history, authorization) == history

\* Mutant: the resolved event is taken out of the history.
Resolve_Drop(history, authorization) ==
    IF current_freeze # 0
    THEN SelectSeq(history, LAMBDA e : e # history[current_freeze])
    ELSE history

\* "Update freeze event": the object current_freeze refers to is the one in
\* freeze_history.

Resolve(history, authorization) ==
    IF current_freeze # 0
    THEN [history EXCEPT ![current_freeze] =
            [@ EXCEPT !.resolved = TRUE,
                      !.resolution_time = now,
                      !.resolution_action = authorization]]
    ELSE history

\* Mutant: the reset of unfreeze leaves current_freeze as it is.
ResumeDone_KeepCurrent(t) ==
    /\ task[t].pc = "resume"
    /\ task[t].iter = <<>>
    /\ freeze_history' = Resolve(freeze_history, task[t].auth)
    /\ state' = "ACTIVE"
    /\ recovery_attempts' = 0
    /\ task' = [task EXCEPT ![t] = [@ EXCEPT !.pc = "cb_unfreeze"]]
    /\ UNCHANGED <<components, component_status, current_freeze,
                   brain_callback, now>>

\* Mutant: the reset of unfreeze leaves recovery_attempts as it is.
ResumeDone_KeepAttempts(t) ==
    /\ task[t].pc = "resume"
    /\ task[t].iter = <<>>
    /\ freeze_history' = Resolve(freeze_history, task[t].auth)
    /\ state' = "ACTIVE"
    /\ current_freeze' = 0
    /\ task' = [task EXCEPT ![t] = [@ EXCEPT !.pc = "cb_unfreeze"]]
    /\ UNCHANGED <<components, component_status, recovery_attempts,
                   brain_callback, now>>

\* The resume loop done: the event is resolved and the state reset.
ResumeDone(t) ==
    /\ task[t].pc = "resume"
    /\ task[t].iter = <<>>
    /\ freeze_history' = Resolve(freeze_history, task[t].auth)
    /\ state' = "ACTIVE"
    /\ current_freeze' = 0
    /\ recovery_attempts' = 0
    /\ task' = [task EXCEPT ![t] = [@ EXCEPT !.pc = "cb_unfreeze"]]
    /\ UNCHANGED <<components, component_status, brain_callback, now>>

\* await self.brain_callback("unfreeze", None); return True
CallbackUnfreeze(t) ==
    /\ task[t].pc = "cb_unfreeze"
    /\ LET tk == [task[t] EXCEPT !.stack = Pop(@)]
       IN  IF brain_callback
           THEN \E out \in CallOutcomes :
                  task' = [task EXCEPT ![t] =
                    IF out = "ok"
                    THEN UnfreezeReturn(Called(tk, "callback", "unfreeze", out),
                                        TRUE)
                    ELSE Raise(Called(tk, "callback", "unfreeze", out))]
           ELSE task' = [task EXCEPT ![t] = UnfreezeReturn(tk, TRUE)]
    /\ UNCHANGED <<state, current_freeze, components, component_status,
                   freeze_history, recovery_attempts, brain_callback, now>>

\* The caller takes the result of the finished call.
TakeResult(t) ==
    /\ task[t].pc = "done"
    /\ task' = [task EXCEPT ![t] = IdleTask]
    /\ UNCHANGED <<state, current_freeze, components, component_status,
                   freeze_history, recovery_attempts, brain_callback, now>>

\* ------------------------------------------------------------------------
\* TripleCheckProtocol: helpers
\* ------------------------------------------------------------------------
VARIABLES
    primary_sources,            \* TripleCheckProtocol.primary_sources
    secondary_sources,          \* TripleCheckProtocol.secondary_sources
    total_verifications,        \* TripleCheckProtocol.total_verifications
    successful_verifications,   \* TripleCheckProtocol.successful_verifications
    escalations,                \* TripleCheckProtocol.escalations
    verification                \* the last call of verify, and its outcome

tcvars ==
    <<primary_sources, secondary_sources, total_verifications,
      successful_verifications, escalations, verification>>

RECURSIVE Fact(_)
Fact(n) == IF n <= 1 THEN 1 ELSE n * Fact(n - 1)

RECURSIVE Sum(_)
Sum(s) == IF s = <<>> THEN 0 ELSE Head(s) + Sum(Tail(s))

\* The sequences over S of length n, and of a length below n.
SeqsOf(S, n) == [1..n -> S]

SeqsBelow(S, n) == UNION {SeqsOf(S, k) : k \in 0..(n - 1)}

\* A registry is the sequence, in insertion order, of the reliability scores
\* of its SourceReferences, in hundredths.
DefaultPrimary == <<99, 99, 99, 98>>
DefaultSecondary == <<92, 90, 95>>
Scores == {30, 70}
Registries == SeqsBelow(Scores, MaxSources + 1)

\* Two official sources of reliability 0.99 and one independent source of
\* reliability 0.92 registered instead of the defaults.
OfficialPair == <<99, 99>>
IndependentOne == <<92>>

LongestRegistry ==
    IF MaxSources > Len(DefaultPrimary) THEN MaxSources ELSE Len(DefaultPrimary)

\* Confidences are exact fractions: a check's confidence is counted in units
\* of 1/Scale, the overall confidence (a third of their sum) in units of
\* 1/(3*Scale).
Scale == 100 * Fact(LongestRegistry)

\* What the source adapter (_verify_against_source, a placeholder in the
\* source) answers for one source: (True, evidence) or (False, ''), unless it
\* raises.
Answers == {"match", "nomatch"}

\* The answers the loop over `sources` gets to see: one for each source, or
\* those up to the first call that raises.
ResponsesTo(sources) ==
    SeqsOf(Answers, Len(sources))
    \cup {Append(r, "raise") : r \in SeqsBelow(Answers, Len(sources))}

\* What the pattern store (_match_historical, a placeholder in the source)
\* answers: <<len(matches), len(anomalies)>>.  The placeholder's own answer
\* is the first.
MatchOutcomes == {<<1, 0>>, <<0, 0>>, <<1, 1>>}

\* Fact records: dicts as sequences of <<key, value>> in insertion order.  A
\* value is a string or, under the key "votes", a dict again.  There are two
\* insertion orders of one record with an id, and two of one without, the
\* latter differing in the order of the nested dict.
Facts ==
    {<< <<"id", "vote_001">>, <<"result", "passed">> >>,
     << <<"result", "passed">>, <<"id", "vote_001">> >>,
     << <<"result", "passed">>,
        <<"votes", << <<"for", 312>>, <<"against", 287>> >> >> >>,
     << <<"result", "passed">>,
        <<"votes", << <<"against", 287>>, <<"for", 312>> >> >> >>}

\* The order of the keys as Python compares strings.
KeyRank(k) ==
    CASE k = "id" -> 1 [] k = "result" -> 2 [] k = "type" -> 3 [] k = "votes" -> 4

RECURSIVE Insert(_, _)
Insert(sorted, item) ==
    IF sorted = <<>> THEN <<item>>
    ELSE IF KeyRank(item[1]) < KeyRank(Head(sorted)[1])
         THEN <<item>> \o sorted
         ELSE <<Head(sorted)>> \o Insert(Tail(sorted), item)

RECURSIVE Sorted(_)
Sorted(items) ==
    IF items = <<>> THEN <<>>
    ELSE Insert(Sorted(SubSeq(items, 1, Len(items) - 1)), items[Len(items)])

\* sha256 of str(sorted(data.items())): the digest stands for the string it
\* is taken of.  The keys being distinct, sorted() orders the items by key
\* alone; str() prints a value that is a dict in its insertion order.
hash_data(data) == Sorted(data)

DictGet(data, key, default) ==
    IF \E i \in 1..Len(data) : data[i][1] = key
    THEN data[CHOOSE i \in 1..Len(data) : data[i][1] = key][2]
    ELSE default

Min(a, b) == IF a <= b THEN a ELSE b

\* sum(s.reliability_score for s in sources_used) / len(sources_used), or 0.
Mean(sources_used) ==
    IF sources_used = <<>> THEN 0
    ELSE (Sum(sources_used) * Scale) \div (100 * Len(sources_used))

NoCheck == [passed |-> FALSE, confidence |-> 0, sources_used |-> <<>>]

NoVerification ==
    [kind |-> "none", data_id |-> "", data_hash |-> <<>>,
     original_data |-> <<>>,
     primary_responses |-> <<>>, secondary_responses |-> <<>>,
     match |-> <<>>,
     primary_check |-> NoCheck, secondary_check |-> NoCheck,
     pattern_check |-> NoCheck, overall_status |-> "PENDING",
     overall_confidence |-> 0, verification_chain |-> <<>>]

TCConstructed ==
    /\ total_verifications = 0
    /\ successful_verifications = 0
    /\ escalations = 0
    /\ verification = NoVerification

\* The protocol as constructed.
TCDefault ==
    /\ primary_sources = DefaultPrimary
    /\ secondary_sources = DefaultSecondary
    /\ TCConstructed

\* The protocol as constructed, or with its registries replaced.
TCInit ==
    /\ \/ /\ primary_sources \in Registries \cup {DefaultPrimary}
          /\ secondary_sources \in Registries \cup {DefaultSecondary}
       \/ /\ primary_sources = OfficialPair
          /\ secondary_sources = IndependentOne
    /\ TCConstructed

\* ------------------------------------------------------------------------
\* TripleCheckProtocol: verify
\* ------------------------------------------------------------------------
Raises(responses) == \E i \in 1..Len(responses) : responses[i] = "raise"

\* _select_sources returns the registry; every source of it is appended to
\* sources_used, whatever the adapter answered.
check_primary(sources) ==
    [passed |-> Len(sources) >= min_sources_required,
     confidence |-> Min(Mean(sources), Scale),
     sources_used |-> sources]

check_secondary(sources) ==
    [passed |-> Len(sources) >= 1,
     confidence |-> Mean(sources),
     sources_used |-> sources]

\* Mutant: a passing pattern check is as confident as a source of
\* reliability 0.99.
PatternConfidence_High(passed) ==
    IF passed THEN (99 * Scale) \div 100 ELSE (4 * Scale) \div 10

\* Line 395.
PatternConfidence(passed) ==
    IF passed THEN (8 * Scale) \div 10 ELSE (4 * Scale) \div 10

\* Mutant: the pattern store has nothing to match a first fact against.
check_pattern_Learning(match) ==
    LET passed == match[2] = 0 /\ match[1] > 0 /\ total_verifications > 0
    IN  [passed |-> passed, confidence |-> PatternConfidence(passed),
         sources_used |-> <<>>]

\* Lines 391-405.
check_pattern(match) ==
    LET passed == match[2] = 0 /\ match[1] > 0
    IN  [passed |-> passed, confidence |-> PatternConfidence(passed),
         sources_used |-> <<>>]

PassFail(check) == IF check.passed THEN "PASS" ELSE "FAIL"

Count(b) == IF b THEN 1 ELSE 0

\* Mutant: two passes are enough for VERIFIED.
StatusOf_TwoSuffice(passed_count) ==
    IF passed_count >= 2 THEN "VERIFIED"
    ELSE IF passed_count >= 1 THEN "PARTIAL" ELSE "FAILED"

\* Lines 250-255.
StatusOf(passed_count) ==
    IF passed_count = 3 THEN "VERIFIED"
    ELSE IF passed_count >= 1 THEN "PARTIAL" ELSE "FAILED"

\* Mutant: a confidence of exactly one half escalates too.
BelowHalf_Inclusive(overall_confidence) == 2 * overall_confidence <= 3 * Scale

\* overall_confidence < 0.5, the confidence counted in units of 1/(3*Scale).
BelowHalf(overall_confidence) == 2 * overall_confidence < 3 * Scale

\* Line 258.
NeedsEscalation(status, overall_confidence) ==
    status = "PARTIAL" /\ BelowHalf(overall_confidence)

\* Mutant: the entry of the secondary check is written before the primary's.
verification_chain_SecondaryFirst(primary, secondary, pattern, escalated, status) ==
    <<"Verification started",
      <<"Secondary check", PassFail(secondary)>>,
      <<"Primary check", PassFail(primary)>>,
      <<"Pattern check", PassFail(pattern)>>>>
    \o (IF escalated THEN <<"ESCALATED: Requires human review">> ELSE <<>>)
    \o << <<"Final status", status>> >>

\* The appends to verification_chain, lines 215-268, in their order; the
\* start entry without its timestamp.
verification_chain(primary, secondary, pattern, escalated, status) ==
    <<"Verification started",
      <<"Primary check", PassFail(primary)>>,
      <<"Secondary check", PassFail(secondary)>>,
      <<"Pattern check", PassFail(pattern)>>>>
    \o (IF escalated THEN <<"ESCALATED: Requires human review">> ELSE <<>>)
    \o << <<"Final status", status>> >>

\* Mutant: every completed verification counts as successful.
Successes_Every(status) == 1

\* Lines 265-266: what a verification adds to successful_verifications.
Successes(status) == IF status = "VERIFIED" THEN 1 ELSE 0

verify(data, primary_responses, secondary_responses, match) ==
    LET data_id == DictGet(data, "id", <<"auto", now>>)
        data_hash == hash_data(data)
        primary_result == check_primary(primary_sources)
        secondary_result == check_secondary(secondary_sources)
        pattern_result == check_pattern(match)
        passed_count == Count(primary_result.passed)
                        + Count(secondary_result.passed)
                        + Count(pattern_result.passed)
        overall_confidence == primary_result.confidence
                              + secondary_result.confidence
                              + pattern_result.confidence
        escalated == NeedsEscalation(StatusOf(passed_count), overall_confidence)
        status == IF escalated THEN "ESCALATED" ELSE StatusOf(passed_count)
        chain == verification_chain(primary_result, secondary_result,
                                    pattern_result, escalated, status)
    IN
    /\ IF Raises(primary_responses)
       THEN \* the adapter's exception leaves verify from _check_primary
            /\ verification' =
                  [NoVerification EXCEPT
                      !.kind = "raise", !.data_id = data_id,
                      !.data_hash = data_hash, !.original_data = data,
                      !.primary_responses = primary_responses]
            /\ UNCHANGED <<total_verifications, successful_verifications,
                           escalations>>
       ELSE IF Raises(secondary_responses)
       THEN \* ... or from _check_secondary
            /\ verification' =
                  [NoVerification EXCEPT
                      !.kind = "raise", !.data_id = data_id,
                      !.data_hash = data_hash, !.original_data = data,
                      !.primary_responses = primary_responses,
                      !.secondary_responses = secondary_responses,
                      !.primary_check = primary_result]
            /\ UNCHANGED <<total_verifications, successful_verifications,
                           escalations>>
       ELSE /\ escalations' = escalations + Count(escalated)
            /\ total_verifications' = total_verifications + 1
            /\ successful_verifications' =
                  successful_verifications + Successes(status)
            /\ verification' =
                  [kind |-> "result", data_id |-> data_id,
                   data_hash |-> data_hash,
                   original_data |-> data,
                   primary_responses |-> primary_responses,
                   secondary_responses |-> secondary_responses,
                   match |-> match,
                   primary_check |-> primary_result,
                   secondary_check |-> secondary_result,
                   pattern_check |-> pattern_result,
                   overall_status |-> status,
                   overall_confidence |-> overall_confidence,
                   verification_chain |-> chain]
    /\ UNCHANGED <<primary_sources, secondary_sources>>

\* The caller takes the result of the finished call.
TakeVerification ==
    /\ verification.kind # "none"
    /\ verification' = NoVerification
    /\ UNCHANGED <<primary_sources, secondary_sources, total_verifications,
                   successful_verifications, escalations>>

\* ------------------------------------------------------------------------
\* WestminsterWatch (the brain): helpers
\* ------------------------------------------------------------------------
VARIABLES
    arms,                   \* WestminsterWatch.arms, in insertion order
    arm_status,             \* WestminsterWatch.arm_status
    frozen,                 \* WestminsterWatch.frozen
    freeze_reason,          \* WestminsterWatch.freeze_reason
    verifications_total,    \* WestminsterWatch.verifications_total
    verifications_passed,   \* WestminsterWatch.verifications_passed
    request                 \* the last call made on the brain, and its outcome

brainvars ==
    <<arms, arm_status, frozen, freeze_reason, verifications_total,
      verifications_passed, request>>

ArmStatus == {"ACTIVE", "PAUSED", "FAILED", "INITIALIZING"}

\* The arms registered with the brain: with and without pause/resume/
\* health_check, one name registered with two objects.
ArmInputs == {<<"hansard", Arm>>, <<"veritas", Arm>>, <<"veritas", Opaque>>}

\* What an arm's health_check() can do: return an ArmHealthReport with the
\* given status, return a dict (as the arms of src/sentinel/agents/arms do),
\* or raise.
ReportOutcomes == {"ACTIVE", "FAILED", "dict", "raise"}

NoReason == "<None>"

NoReports == [n \in CompNames |-> Absent]

NoResult ==
    [data_id |-> "", primary_check |-> FALSE, secondary_check |-> FALSE,
     pattern_check |-> FALSE, confidence |-> 0, status |-> "PENDING"]

\* The last call made on the brain and how it ended.
NoRequest ==
    [op |-> "none", args |-> <<>>, kind |-> "none", bool |-> FALSE,
     reports |-> NoReports, result |-> NoResult, calls |-> <<>>]

BrainInit ==
    /\ arms = <<>>
    /\ arm_status = [n \in CompNames |-> Absent]
    /\ frozen = FALSE
    /\ freeze_reason = NoReason
    /\ verifications_total = 0
    /\ verifications_passed = 0
    /\ request = NoRequest

\* The part of the brain a coroutine works on, with the record of the calls
\* it made on the arms and whether an exception is on its way up.
Running ==
    [arm_status |-> arm_status, frozen |-> frozen,
     freeze_reason |-> freeze_reason, reports |-> NoReports,
     calls |-> <<>>, raised |-> FALSE]

\* The registered arms that have the attribute.
Having(attr) ==
    {arms[i].name : i \in {j \in 1..Len(arms) : attr \in arms[j].kind}}

Settle(b) ==
    /\ arm_status' = b.arm_status
    /\ frozen' = b.frozen
    /\ freeze_reason' = b.freeze_reason

\* ------------------------------------------------------------------------
\* WestminsterWatch: operations
\* ------------------------------------------------------------------------
register_arm(arm_name, arm_instance) ==
    /\ arms' = DictSet(arms, arm_name, arm_instance)
    /\ arm_status' = [arm_status EXCEPT ![arm_name] = "INITIALIZING"]
    /\ request' = [NoRequest EXCEPT !.op = "register_arm",
                                    !.args = <<arm_name>>, !.kind = "void"]
    /\ UNCHANGED <<frozen, freeze_reason, verifications_total,
                   verifications_passed>>

\* Lines 282-285: the loop of freeze over the arms, from the i-th on.  A
\* pause() that raises ends the loop and the freeze.
RECURSIVE PauseArms(_, _, _)
PauseArms(b, i, pause_out) ==
    IF i > Len(arms) THEN b
    ELSE LET name == arms[i].name
             called == IF "pause" \in arms[i].kind
                       THEN [b EXCEPT !.calls =
                                Append(@, <<"pause", name, pause_out[name]>>)]
                       ELSE b
         IN  IF "pause" \in arms[i].kind /\ pause_out[name] = "raise"
             THEN [called EXCEPT !.raised = TRUE]
             ELSE PauseArms([called EXCEPT !.arm_status[name] = "PAUSED"],
                            i + 1, pause_out)

\* Lines 273-292.  _run_diagnostics builds a dict and changes nothing.
Freeze(b, reason, pause_out) ==
    IF b.frozen THEN b
    ELSE PauseArms([b EXCEPT !.frozen = TRUE, !.freeze_reason = reason],
                   1, pause_out)

\* Lines 150-176: the loop of health_check_all over the arms, from the i-th
\* on.
RECURSIVE HealthCheckArms(_, _, _, _)
HealthCheckArms(b, i, health, pause_out) ==
    IF i > Len(arms) THEN b
    ELSE
    LET arm_name == arms[i].name
        probes == "health_check" \in arms[i].kind
        out == IF probes THEN health[arm_name] ELSE b.arm_status[arm_name]
        probed == IF probes
                  THEN [b EXCEPT !.calls =
                           Append(@, <<"health_check", arm_name, out>>)]
                  ELSE b
        \* the try block: the probe raises, or report.status fails on a
        \* dict, or the status is recorded and a FAILED one freezes
        tried ==
            IF out \in {"raise", "dict"}
            THEN [probed EXCEPT !.raised = TRUE]
            ELSE LET recorded == [probed EXCEPT !.reports[arm_name] = out,
                                                !.arm_status[arm_name] = out]
                 IN  IF out = "FAILED"
                     THEN Freeze(recorded, <<"health check failed", arm_name>>,
                                 pause_out)
                     ELSE recorded
        \* the except block: a FAILED report, and a freeze
        handled ==
            IF tried.raised
            THEN Freeze([tried EXCEPT !.raised = FALSE,
                                      !.reports[arm_name] = "FAILED"],
                        <<"error", arm_name>>, pause_out)
            ELSE tried
    IN  IF handled.raised THEN handled
        ELSE HealthCheckArms(handled, i + 1, health, pause_out)

health_check_all(health, pause_out) ==
    LET b == HealthCheckArms(Running, 1, health, pause_out)
    IN  /\ Settle(b)
        /\ request' = [NoRequest EXCEPT
                          !.op = "health_check_all",
                          !.kind = IF b.raised THEN "raise" ELSE "reports",
                          !.reports = IF b.raised THEN NoReports ELSE b.reports,
                          !.calls = b.calls]
        /\ UNCHANGED <<arms, verifications_total, verifications_passed>>

freeze(reason, pause_out) ==
    LET b == Freeze(Running, reason, pause_out)
    IN  /\ Settle(b)
        /\ request' = [NoRequest EXCEPT
                          !.op = "freeze", !.args = <<reason>>,
                          !.kind = IF b.raised THEN "raise" ELSE "void",
                          !.calls = b.calls]
        /\ UNCHANGED <<arms, verifications_total, verifications_passed>>

\* Lines 323-326: the loop of unfreeze over the arms, from the i-th on.
RECURSIVE ResumeArms(_, _, _)
ResumeArms(b, i, resume_out) ==
    IF i > Len(arms) THEN b
    ELSE LET name == arms[i].name
             called == IF "resume" \in arms[i].kind
                       THEN [b EXCEPT !.calls =
                                Append(@, <<"resume", name, resume_out[name]>>)]
                       ELSE b
         IN  IF "resume" \in arms[i].kind /\ resume_out[name] = "raise"
             THEN [called EXCEPT !.raised = TRUE]
             ELSE ResumeArms([called EXCEPT !.arm_status[name] = "ACTIVE"],
                             i + 1, resume_out)

brain_unfreeze(authorization, resume_out) ==
    LET b == ResumeArms([Running EXCEPT !.frozen = FALSE,
                                        !.freeze_reason = NoReason],
                        1, resume_out)
        call == [NoRequest EXCEPT !.op = "unfreeze",
                                  !.args = <<authorization>>]
    IN  IF ~Truthy(authorization)
        THEN /\ request' = [call EXCEPT !.kind = "bool", !.bool = FALSE]
             /\ UNCHANGED <<arms, arm_status, frozen, freeze_reason,
                            verifications_total, verifications_passed>>
        ELSE /\ Settle(b)
             /\ request' = [call EXCEPT
                               !.kind = IF b.raised THEN "raise" ELSE "bool",
                               !.bool = ~b.raised,
                               !.calls = b.calls]
             /\ UNCHANGED <<arms, verifications_total, verifications_passed>>

\* TripleCheckResult.status
status(primary_check, secondary_check, pattern_check) ==
    IF primary_check /\ secondary_check /\ pattern_check THEN "VERIFIED"
    ELSE IF primary_check \/ secondary_check \/ pattern_check THEN "PARTIAL"
    ELSE "FAILED"

\* Mutant: a triple_check whose three checks fail freezes the brain.
triple_check_Freezing(data, primary_check, secondary_check, pattern_check) ==
    LET call == [NoRequest EXCEPT !.op = "triple_check", !.args = <<data>>]
        result == [data_id |-> DictGet(data, "id", <<"hash", data>>),
                   primary_check |-> primary_check,
                   secondary_check |-> secondary_check,
                   pattern_check |-> pattern_check,
                   confidence |-> Count(primary_check)
                                  + Count(secondary_check)
                                  + Count(pattern_check),
                   status |-> status(primary_check, secondary_check,
                                     pattern_check)]
    IN  IF frozen
        THEN /\ request' = [call EXCEPT !.kind = "raise"]
             /\ UNCHANGED <<arms, arm_status, frozen, freeze_reason,
                            verifications_total, verifications_passed>>
        ELSE /\ verifications_total' = verifications_total + 1
             /\ verifications_passed' =
                   verifications_passed + Count(result.status = "VERIFIED")
             /\ request' = [call EXCEPT !.kind = "result", !.result = result]
             /\ frozen' = (result.status = "FAILED")
             /\ UNCHANGED <<arms, arm_status, freeze_reason>>

\* The three checks (_verify_primary, _verify_secondary, _verify_pattern) are
\* placeholders in the source; their answers are inputs here.
triple_check(data, primary_check, secondary_check, pattern_check) ==
    LET call == [NoRequest EXCEPT !.op = "triple_check", !.args = <<data>>]
        result == [data_id |-> DictGet(data, "id", <<"hash", data>>),
                   primary_check |-> primary_check,
                   secondary_check |-> secondary_check,
                   pattern_check |-> pattern_check,
                   \* sum(checks) / 3.0, in thirds
                   confidence |-> Count(primary_check)
                                  + Count(secondary_check)
                                  + Count(pattern_check),
                   status |-> status(primary_check, secondary_check,
                                     pattern_check)]
    IN  IF frozen
        THEN /\ request' = [call EXCEPT !.kind = "raise"]
             /\ UNCHANGED <<arms, arm_status, frozen, freeze_reason,
                            verifications_total, verifications_passed>>
        ELSE /\ verifications_total' = verifications_total + 1
             /\ verifications_passed' =
                   verifications_passed + Count(result.status = "VERIFIED")
             /\ request' = [call EXCEPT !.kind = "result", !.result = result]
             /\ UNCHANGED <<arms, arm_status, frozen, freeze_reason>>

\* The caller takes the outcome of the finished call.
TakeReply ==
    /\ request.kind # "none"
    /\ request' = NoRequest
    /\ UNCHANGED <<arms, arm_status, frozen, freeze_reason,
                   verifications_total, verifications_passed>>

\* ------------------------------------------------------------------------
\* The specifications.  Each is about one of the three objects; the other
\* two stay as constructed.
\* ------------------------------------------------------------------------
vars == <<fpvars, tcvars, brainvars>>

\* FreezeProtocol.  Operations run to completion: a public operation starts
\* only when no coroutine is under way.
Quiescent == \A t \in Tasks : task[t].pc = "idle"

FPOnly == UNCHANGED <<tcvars, brainvars>>

\* The public operations, with their arguments drawn from the given sets and
\* at most `events` freeze events made.
FPCall(t, registrations, reasons, affected, events) ==
    \/ \E c \in registrations :
            Quiescent /\ FPOnly /\ register_component(t, c[1], c[2])
    \/ \E n \in CompNames :
            Quiescent /\ FPOnly /\ unregister_component(t, n)
    \/ \E r \in reasons, src \in TriggerSources, a \in affected :
            /\ Quiescent /\ FPOnly
            /\ AlreadyFrozen \/ Len(freeze_history) < events
            /\ trigger_freeze(t, r, src, a)
    \/ \E auth \in Authorizations :
            Quiescent /\ FPOnly /\ unfreeze(t, auth)
    \/ Quiescent /\ FPOnly /\ run_diagnostics(t)

FPStep(t) ==
    \/ FPOnly /\ HaltStep(t)
    \/ FPOnly /\ HaltDone(t)
    \/ FPOnly /\ CallbackFreeze(t)
    \/ FPOnly /\ DiagStep(t)
    \/ FPOnly /\ DiagDone(t)
    \/ FPOnly /\ AttemptAutoRecovery(t)
    \/ FPOnly /\ ActStep(t)
    \/ FPOnly /\ RestartStep(t)
    \/ FPOnly /\ ClearStep(t)
    \/ FPOnly /\ ActionDone(t)
    \/ FPOnly /\ ResumeStep(t)
    \/ FPOnly /\ ResumeDone(t)
    \/ FPOnly /\ CallbackUnfreeze(t)
    \/ FPOnly /\ TakeResult(t)

Init == FPInit /\ TCDefault /\ BrainInit

\* Spec: two components of every kind and every row of the recovery table,
\* through one freeze.
Next ==
    \/ FPCall("t1", RegisterInputs, ReasonInputs, AffectedInputs, MaxHistory)
    \/ FPStep("t1")

Spec == Init /\ [][Next]_vars

\* SpecHistory: freeze after freeze on the running clock, with one component.
HistoryRegisterInputs == {<<"hansard", CachedArm>>}
HistoryReasonInputs == {"API_ERROR", "SECURITY_CONCERN"}
HistoryAffectedInputs == {<<>>}

NextHistory ==
    \/ FPCall("t1", HistoryRegisterInputs, HistoryReasonInputs,
              HistoryAffectedInputs, MaxEvents)
    \/ FPStep("t1")
    \/ FPOnly /\ Tick

SpecHistory == Init /\ [][NextHistory]_vars

\* SpecVerify: TripleCheckProtocol.verify over registries of every length,
\* every answer of the adapters and of the pattern store.
InitVerify == FPInit /\ ~brain_callback /\ TCInit /\ BrainInit

TCOnly == UNCHANGED <<fpvars, brainvars>>

\* A call is made when the result of the one before has been taken; the
\* secondary sources are consulted if the primary check returned.
NextVerify ==
    \/ /\ verification.kind = "none"
       /\ total_verifications < MaxVerifications
       /\ \E data \in Facts, match \in MatchOutcomes,
             primary_responses \in ResponsesTo(primary_sources) :
            \E secondary_responses \in
                   IF Raises(primary_responses) THEN {<<>>}
                   ELSE ResponsesTo(secondary_sources) :
               /\ TCOnly
               /\ verify(data, primary_responses, secondary_responses, match)
    \/ \* the same fact verified again, the adapters and the pattern store
       \* answering as before
       /\ verification.kind = "result"
       /\ total_verifications < MaxVerifications
       /\ TCOnly
       /\ verify(verification.original_data, verification.primary_responses,
                 verification.secondary_responses, verification.match)
    \/ TCOnly /\ TakeVerification

SpecVerify == InitVerify /\ [][NextVerify]_vars

\* SpecBrain: the operations of WestminsterWatch, each run to completion.
InitBrain == FPInit /\ ~brain_callback /\ TCDefault /\ BrainInit

BrainOnly == UNCHANGED <<fpvars, tcvars>>

\* A call is made when the outcome of the one before has been taken.
Ready == request.kind = "none"

NextBrain ==
    \/ /\ Ready
       /\ \E a \in ArmInputs : BrainOnly /\ register_arm(a[1], a[2])
    \/ /\ Ready
       /\ \E health \in [Having("health_check") -> ReportOutcomes],
             pause_out \in [Having("pause") -> CallOutcomes] :
               BrainOnly /\ health_check_all(health, pause_out)
    \/ /\ Ready
       /\ \E pause_out \in [Having("pause") -> CallOutcomes] :
               BrainOnly /\ freeze("manual", pause_out)
    \/ /\ Ready
       /\ \E authorization \in Authorizations,
             resume_out \in [Having("resume") -> CallOutcomes] :
               BrainOnly /\ brain_unfreeze(authorization, resume_out)
    \/ /\ Ready
       /\ frozen \/ verifications_total < MaxVerifications
       /\ \E data \in Facts, primary_check \in BOOLEAN,
             secondary_check \in BOOLEAN, pattern_check \in BOOLEAN :
               /\ BrainOnly
               /\ triple_check(data, primary_check, secondary_check,
                               pattern_check)
    \/ BrainOnly /\ TakeReply

SpecBrain == InitBrain /\ [][NextBrain]_vars

\* ------------------------------------------------------------------------
\* Claims about FreezeProtocol
\* ------------------------------------------------------------------------
\* task t's step is the call of the public operation op.
Calls(t, op) ==
    /\ task[t].pc = "idle"
    /\ task'[t].pc # "idle"
    /\ task'[t].op = op

Finished(t, op) == task[t].pc = "done" /\ task[t].op = op

RegisteredNames == {n \in CompNames : HasKey(components, n)}

Unresolved == {i \in 1..Len(freeze_history) : ~freeze_history[i].resolved}

BetweenOperations == \A t \in Tasks : task[t].pc \in {"idle", "done"}

\* How the last call of `what` on component n by task t ended ("none": no
\* such call).
LastOutcome(t, what, n) ==
    LET c == task[t].calls
        hits == {i \in 1..Len(c) : c[i][1] = what /\ c[i][2] = n}
    IN  IF hits = {} THEN "none"
        ELSE c[CHOOSE i \in hits : \A j \in hits : j <= i][3]

\* C1: trigger_freeze called while the system is FROZEN is a no-op: the call
\* is over at once and returns the current event, the same object as before;
\* nothing is appended to freeze_history, no component is paused or resumed,
\* no callback is sent, no diagnostics or auto-recovery run.
C1_FreezeWhileFrozenIsNoOp ==
    [][\A t \in Tasks :
        (state = "FROZEN" /\ Calls(t, "trigger_freeze")) =>
            /\ task'[t].pc = "done"
            /\ task'[t].calls = <<>>
            /\ task'[t].ret.kind = "event"
            /\ task'[t].ret.event = current_freeze
            /\ current_freeze # 0
            /\ UNCHANGED <<state, current_freeze, components, component_status,
                           freeze_history, recovery_attempts>>]_vars

\* C1 witness: a trigger_freeze has returned the current event while a
\* component that a new freeze would have paused is registered, and no call
\* was made.
C1_Witness ==
    /\ Finished("t1", "trigger_freeze")
    /\ state = "FROZEN"
    /\ task["t1"].ret.event = current_freeze
    /\ task["t1"].calls = <<>>
    /\ \E n \in RegisteredNames : hasattr(n, "pause")

\* C2: between operations freeze_history holds at most one unresolved event,
\* and an unresolved event is current_freeze.
C2_AtMostOneUnresolved ==
    BetweenOperations =>
        /\ Cardinality(Unresolved) <= 1
        /\ \A i \in Unresolved : current_freeze = i

\* C2 witness: a second freeze is current after the first was resolved.
C2_Witness ==
    /\ BetweenOperations
    /\ Len(freeze_history) = 2
    /\ freeze_history[1].resolved
    /\ Unresolved = {2}
    /\ current_freeze = 2

\* C3: unfreeze with an empty or absent authorization while FROZEN returns
\* false and changes nothing: the state stays FROZEN, current_freeze stays
\* unresolved, the statuses, recovery_attempts and freeze_history are as they
\* were, and no resume is called.
C3_UnfreezeWithoutAuthorizationRefused ==
    [][\A t \in Tasks :
        (/\ state = "FROZEN"
         /\ Calls(t, "unfreeze")
         /\ task'[t].args[1] \in {"", NoneAuth}) =>
            /\ task'[t].pc = "done"
            /\ task'[t].ret.kind = "bool"
            /\ task'[t].ret.bool = FALSE
            /\ task'[t].calls = <<>>
            /\ state' = "FROZEN"
            /\ current_freeze' # 0
            /\ ~freeze_history'[current_freeze'].resolved
            /\ UNCHANGED <<state, current_freeze, components, component_status,
                           freeze_history, recovery_attempts>>]_vars

\* C3 witness: unfreeze("") has returned False on a frozen system.
C3_Witness ==
    /\ Finished("t1", "unfreeze")
    /\ task["t1"].args = <<"">>
    /\ task["t1"].ret.bool = FALSE
    /\ state = "FROZEN"
    /\ RegisteredNames # {}

\* C4 as claimed: in every state unfreeze with an empty authorization
\* returns false and changes nothing.
C4_Original ==
    [][\A t \in Tasks :
        (Calls(t, "unfreeze") /\ task'[t].args[1] \in {"", NoneAuth}) =>
            /\ task'[t].pc = "done"
            /\ task'[t].ret.kind = "bool"
            /\ task'[t].ret.bool = FALSE
            /\ UNCHANGED <<state, current_freeze, components, component_status,
                           freeze_history, recovery_attempts>>]_vars

\* C4 as amended: in every state unfreeze with an empty authorization
\* changes nothing; it returns false when the system is FROZEN and true when
\* it is not (there is nothing to unfreeze and the authorization is not
\* looked at).
C4_UnauthorizedUnfreezeChangesNothing ==
    [][\A t \in Tasks :
        (Calls(t, "unfreeze") /\ task'[t].args[1] \in {"", NoneAuth}) =>
            /\ task'[t].pc = "done"
            /\ task'[t].calls = <<>>
            /\ task'[t].ret.kind = "bool"
            /\ task'[t].ret.bool = (state # "FROZEN")
            /\ UNCHANGED <<state, current_freeze, components, component_status,
                           freeze_history, recovery_attempts>>]_vars

\* C4 witness: unfreeze("") has returned True on a system that is not frozen.
C4_Witness ==
    /\ Finished("t1", "unfreeze")
    /\ task["t1"].args = <<"">>
    /\ task["t1"].ret.bool = TRUE
    /\ state = "ACTIVE"

\* unfreeze has run its resume loop and reset the state (line 419): it
\* succeeds, whatever the callback does next.
Unfrozen(t) == task[t].pc = "cb_unfreeze"

\* C5 as claimed: after unfreeze(auth) succeeds from FROZEN every registered
\* component has status ACTIVE and the event is resolved, whatever resume()
\* did.
C5_Original ==
    \A t \in Tasks :
        Unfrozen(t) =>
            /\ \A n \in RegisteredNames : component_status[n] = "ACTIVE"
            /\ Unresolved = {}

\* C5 as amended: after unfreeze(auth) succeeds from FROZEN the event that
\* was current is resolved, and every registered component has status
\* ACTIVE, except those whose resume() raised, which have status ERROR.
C5_UnfreezeResumesAndResolves ==
    \A t \in Tasks :
        Unfrozen(t) =>
            /\ \A n \in RegisteredNames :
                  component_status[n] =
                     IF LastOutcome(t, "resume", n) = "raise"
                     THEN "ERROR" ELSE "ACTIVE"
            /\ Unresolved = {}
            /\ current_freeze = 0
            /\ state = "ACTIVE"
            /\ freeze_history[Len(freeze_history)].resolution_action
                  = task[t].auth

\* C5 witness: an unfreeze has succeeded with one component resumed and
\* another whose resume() raised.
C5_Witness ==
    /\ Unfrozen("t1")
    /\ task["t1"].op = "unfreeze"
    /\ \E n \in RegisteredNames : LastOutcome("t1", "resume", n) = "ok"
    /\ \E n \in RegisteredNames : LastOutcome("t1", "resume", n) = "raise"

Halted(t) == task[t].pc = "cb_freeze"

Flags(v) ==
    <<v.primary_check.passed, v.secondary_check.passed, v.pattern_check.passed>>

Passes(v) ==
    Cardinality({i \in 1..3 : Flags(v)[i]})

\* The step is a verify that returns its result.
Verifies == verification.kind = "none" /\ verification'.kind = "result"

\* C6: whatever the three pass flags, verify returns VERIFIED if and only if
\* all three checks passed and FAILED if and only if all three failed; the
\* status of the brain's TripleCheckResult is VERIFIED and FAILED in the same
\* cases.
C6_VerifiedIffAllPassFailedIffNone ==
    /\ verification.kind = "result" =>
          /\ verification.overall_status = "VERIFIED"
                <=> Flags(verification) = <<TRUE, TRUE, TRUE>>
          /\ verification.overall_status = "FAILED"
                <=> Flags(verification) = <<FALSE, FALSE, FALSE>>
    /\ \A p \in BOOLEAN, s \in BOOLEAN, t \in BOOLEAN :
          /\ status(p, s, t) = "VERIFIED" <=> (p /\ s /\ t)
          /\ status(p, s, t) = "FAILED" <=> (~p /\ ~s /\ ~t)

\* C6 witness: a second verify has returned FAILED with the three checks
\* failed, one source being registered as primary.
C6_Witness ==
    /\ verification.kind = "result"
    /\ verification.overall_status = "FAILED"
    /\ Flags(verification) = <<FALSE, FALSE, FALSE>>
    /\ Len(primary_sources) = 1
    /\ total_verifications = 2

\* C7: when one or two of the three checks pass, verify returns PARTIAL if
\* overall_confidence >= 0.5 and ESCALATED if overall_confidence < 0.5; the
\* escalations counter goes up by one in a call that returns ESCALATED and
\* stays as it is in every other call.
C7_PartialOrEscalated ==
    [][Verifies =>
        LET v == verification'
        IN  /\ Passes(v) \in {1, 2} =>
                  v.overall_status =
                     IF 2 * v.overall_confidence >= 3 * Scale
                     THEN "PARTIAL" ELSE "ESCALATED"
            /\ v.overall_status \in {"PARTIAL", "ESCALATED"} =>
                  Passes(v) \in {1, 2}
            /\ escalations' =
                  escalations + (IF v.overall_status = "ESCALATED" THEN 1 ELSE 0)
            /\ v.overall_confidence =
                  v.primary_check.confidence + v.secondary_check.confidence
                  + v.pattern_check.confidence]_vars

\* C7 witness: verify has returned PARTIAL at a confidence of exactly one
\* half, after an earlier call returned ESCALATED.
C7_Witness ==
    /\ verification.kind = "result"
    /\ verification.overall_status = "PARTIAL"
    /\ 2 * verification.overall_confidence = 3 * Scale
    /\ escalations = 1
    /\ total_verifications = 2

\* ------------------------------------------------------------------------
\* Claims about WestminsterWatch
\* ------------------------------------------------------------------------
\* The step is the call of op on the brain.
BrainCalls(op) == Ready /\ request'.op = op

PauseCalled(calls, n) ==
    \E i \in 1..Len(calls) : calls[i][1] = "pause" /\ calls[i][2] = n

\* A triple_check made while the frozen flag is set raises and changes
\* nothing, and the flag is cleared only by an unfreeze with an
\* authorization.
RejectedWhileFrozen ==
    [][/\ (frozen /\ BrainCalls("triple_check")) =>
              /\ request'.kind = "raise"
              /\ UNCHANGED <<verifications_total, verifications_passed,
                             arms, arm_status, frozen, freeze_reason>>
       /\ (frozen /\ ~frozen') =>
              /\ request'.op = "unfreeze"
              /\ Truthy(request'.args[1])]_vars

\* C8: from a freeze until a successful unfreeze every triple_check is
\* rejected with an error and changes nothing: a triple_check made while the
\* brain is frozen raises and leaves verifications_total,
\* verifications_passed, the arm statuses and the frozen flag as they were,
\* and the brain stops being frozen only by an unfreeze that succeeds.
C8_Original ==
    [][/\ (frozen /\ BrainCalls("triple_check")) =>
              /\ request'.kind = "raise"
              /\ UNCHANGED <<verifications_total, verifications_passed,
                             arm_status, frozen>>
       /\ (frozen /\ ~frozen') =>
              /\ request'.op = "unfreeze"
              /\ request'.kind = "bool"
              /\ request'.bool]_vars

\* C8 witness: an unfreeze has failed with an exception of resume(), and the
\* brain is not frozen any more although an arm is still paused.
C8_Witness ==
    /\ request.op = "unfreeze"
    /\ request.kind = "raise"
    /\ ~frozen
    /\ \E n \in CompNames : arm_status[n] = "PAUSED"

\* C9: if, on a brain that is not frozen, a health check of health_check_all
\* reports FAILED or raises, then when health_check_all returns the brain is
\* frozen and pause() has been called on every registered arm that has one.
C9_Original ==
    [][(/\ ~frozen
        /\ BrainCalls("health_check_all")
        /\ request'.kind = "reports"
        /\ \E n \in CompNames : request'.reports[n] = "FAILED") =>
            /\ frozen'
            /\ \A n \in Having("pause") : PauseCalled(request'.calls, n)]_vars

\* C9 witness: health_check_all has returned with a FAILED report and the
\* brain frozen, one arm's pause() having raised and another arm's pause()
\* never called.
C9_Witness ==
    /\ request.op = "health_check_all"
    /\ request.kind = "reports"
    /\ frozen
    /\ \E n \in CompNames : request.reports[n] = "FAILED"
    /\ \E i \in 1..Len(request.calls) :
          request.calls[i][1] = "pause" /\ request.calls[i][3] = "raise"
    /\ \E n \in Having("pause") : ~PauseCalled(request.calls, n)

\* ------------------------------------------------------------------------
\* Claims about auto-recovery
\* ------------------------------------------------------------------------
CurrentReason ==
    IF current_freeze = 0 THEN "none" ELSE freeze_history[current_freeze].reason

\* The attempt counter never passes 1 when the operations run one after the
\* other: an attempt is made only by a trigger_freeze that found the state
\* not FROZEN, and the state leaves FROZEN only through an unfreeze, which
\* resets the counter.
AttemptsNeverExhausted == recovery_attempts <= 1

\* C11: failed auto-recovery cycles exhaust max_auto_recovery_attempts: when
\* auto-recovery has failed and left the system FROZEN for a manual unfreeze,
\* the attempt counter is at the maximum and run_diagnostics reports
\* human_intervention_required = true.
C11_Original ==
    \A t \in Tasks :
        (/\ Finished(t, "run_diagnostics")
         /\ state = "FROZEN"
         /\ recovery_attempts > 0) =>
            /\ recovery_attempts = max_auto_recovery_attempts
            /\ task[t].ret.report.human_intervention_required

\* C11 witness: after a failed attempt for an ARM_FAILURE freeze, with the
\* system FROZEN, run_diagnostics has reported that no human is needed.
C11_Witness ==
    /\ Finished("t1", "run_diagnostics")
    /\ state = "FROZEN"
    /\ CurrentReason = "ARM_FAILURE"
    /\ recovery_attempts = 1
    /\ ~task["t1"].ret.report.human_intervention_required

\* The collaborator calls of kind `what` in a task's record.
CallsOf(tk, what) == {i \in 1..Len(tk.calls) : tk.calls[i][1] = what}

HumanReasons == {"SECURITY_CONCERN", "DATA_INTEGRITY"}

\* C12: a trigger_freeze with reason SECURITY_CONCERN or DATA_INTEGRITY skips
\* auto-recovery: no step of the call changes recovery_attempts, no resume
\* or clear_cache is called on any component, and when the call returns its
\* event the state is FROZEN and the event is current and unresolved.
C12_HumanReasonsSkipRecovery ==
    [][\A t \in Tasks :
        (/\ task'[t].op = "trigger_freeze"
         /\ task'[t].pc # "idle"
         /\ task'[t].args[1] \in HumanReasons) =>
            /\ recovery_attempts' = recovery_attempts
            /\ CallsOf(task'[t], "resume") = {}
            /\ CallsOf(task'[t], "clear_cache") = {}
            /\ task'[t].pc \notin {"act", "restart", "clear", "resume"}
            /\ task'[t].ret.kind = "event" =>
                  /\ state' = "FROZEN"
                  /\ task'[t].ret.event = current_freeze'
                  /\ current_freeze' # 0
                  /\ ~freeze_history'[current_freeze'].resolved]_vars

\* C12 witness: a DATA_INTEGRITY freeze from ACTIVE has returned, having
\* paused a component that has both resume and clear_cache.
C12_Witness ==
    /\ Finished("t1", "trigger_freeze")
    /\ task["t1"].args[1] = "DATA_INTEGRITY"
    /\ task["t1"].ret.kind = "event"
    /\ CurrentReason = "DATA_INTEGRITY"
    /\ \E i \in CallsOf(task["t1"], "pause") :
          Lookup(components, task["t1"].calls[i][2]) = CachedArm
    /\ state = "FROZEN"
    /\ recovery_attempts = 0

\* The task is at the end of the diagnostics that _attempt_auto_recovery runs
\* after its actions.
AtPostDiagnostics(tk) ==
    /\ tk.pc = "diag"
    /\ tk.iter = <<>>
    /\ Len(tk.stack) = 3
    /\ tk.stack[2] = "_attempt_auto_recovery"

\* The step made a collaborator call that raised.
CallRaised(t) ==
    /\ Len(task'[t].calls) = Len(task[t].calls) + 1
    /\ task'[t].calls[Len(task'[t].calls)][3] = "raise"

\* C13: an auto-recovery that is not skipped adds 1 to recovery_attempts and
\* starts on the actions recommended for the reason of the freeze; the
\* actions run in order (every clear_cache before every resume) and the
\* first that fails ends the recovery with the system FROZEN; after the
\* actions, unfreeze("auto_recovery") is entered if, and only if, all of them
\* succeeded and at least 0.8 of the registered components are ACTIVE, and
\* otherwise the call returns with the system FROZEN.
C13_AutoRecoveryRuns ==
    [][\A t \in Tasks :
        /\ (task[t].pc = "recover" /\ ~SkipRecovery(task[t].diagnostics)) =>
              /\ recovery_attempts' = recovery_attempts + 1
              /\ task'[t].pc = "act"
              /\ task'[t].acts = ActionsFor(CurrentReason)
        /\ (task[t].pc = "recover" /\ SkipRecovery(task[t].diagnostics)) =>
              /\ recovery_attempts' = recovery_attempts
              /\ task'[t].pc = "done"
        /\ (\A u \in Tasks : task[u].pc # "recover") =>
              recovery_attempts' \in {recovery_attempts, 0}
        /\ (task[t].pc \in {"restart", "clear"} /\ CallRaised(t)) =>
              /\ task'[t].pc = "done"
              /\ task'[t].ret.kind = "event"
              /\ state' = "FROZEN"
              /\ current_freeze' # 0
              /\ UNCHANGED <<freeze_history, component_status>>
        /\ \A i \in CallsOf(task'[t], "clear_cache"),
              j \in CallsOf(task'[t], "resume") : i < j
        /\ AtPostDiagnostics(task[t]) =>
              IF /\ task[t].acts = <<>>
                 /\ TotalCount(component_status) > 0
                 /\ 10 * ActiveCount(component_status)
                       >= 8 * TotalCount(component_status)
              THEN /\ task'[t].pc = "resume"
                   /\ task'[t].auth = "auto_recovery"
                   /\ state' = "RECOVERING"
              ELSE /\ task'[t].pc = "done"
                   /\ task'[t].ret.kind = "event"
                   /\ state' = "FROZEN"
        /\ (task'[t].auth = "auto_recovery" /\ task[t].auth # "auto_recovery") =>
              AtPostDiagnostics(task[t])]_vars

\* C13 witness: an API_ERROR freeze was recovered from automatically:
\* clear_cache and the restart went through, the event is resolved by
\* "auto_recovery" and the state is ACTIVE again.
C13_Witness ==
    /\ Finished("t1", "trigger_freeze")
    /\ task["t1"].ret.kind = "event"
    /\ state = "ACTIVE"
    /\ Len(freeze_history) = 1
    /\ freeze_history[1].reason = "API_ERROR"
    /\ freeze_history[1].resolved
    /\ freeze_history[1].resolution_action = "auto_recovery"
    /\ CallsOf(task["t1"], "clear_cache") # {}
    /\ Cardinality(CallsOf(task["t1"], "resume")) >= 2

\* The names a collaborator call of kind `what` was made on.
CalledOn(tk, what) == {tk.calls[i][2] : i \in CallsOf(tk, what)}

Affected ==
    IF current_freeze = 0 THEN {}
    ELSE {freeze_history[current_freeze].affected_components[i] :
            i \in 1..Len(freeze_history[current_freeze].affected_components)}

\* C14: whatever affected list a trigger_freeze is given, when its pause-all
\* is over pause() has been called on every registered component that has
\* one; and a call made by the RESTART_ARM action is a resume() of a
\* registered component named in the affected list of the current event.
C14_PauseAllRestartAffected ==
    [][\A t \in Tasks :
        /\ (task[t].pc = "halt" /\ task'[t].pc = "cb_freeze") =>
              \A n \in RegisteredNames :
                  hasattr(n, "pause") => n \in CalledOn(task'[t], "pause")
        /\ (/\ task[t].pc = "restart"
            /\ Len(task'[t].calls) = Len(task[t].calls) + 1) =>
              LET c == task'[t].calls[Len(task'[t].calls)]
              IN  /\ c[1] = "resume"
                  /\ c[2] \in Affected
                  /\ c[2] \in RegisteredNames]_vars

\* C14 witness: hansard and veritas are registered, an ARM_FAILURE freeze
\* with affected = [hansard] has returned with the system FROZEN; both were
\* paused and only hansard was resumed.
C14_Witness ==
    /\ Finished("t1", "trigger_freeze")
    /\ state = "FROZEN"
    /\ CurrentReason = "ARM_FAILURE"
    /\ RegisteredNames = {"hansard", "veritas"}
    /\ freeze_history[current_freeze].affected_components = <<"hansard">>
    /\ CalledOn(task["t1"], "pause") = {"hansard", "veritas"}
    /\ CalledOn(task["t1"], "resume") = {"hansard"}
    /\ hasattr("veritas", "resume")

\* ------------------------------------------------------------------------
\* Claims about the scenarios of verify
\* ------------------------------------------------------------------------
AllMatch(responses) == \A i \in 1..Len(responses) : responses[i] = "match"

NoMatch(responses) == \A i \in 1..Len(responses) : responses[i] = "nomatch"

\* Scenario A: the registries of 0.99, 0.99 and of 0.92, every adapter call
\* and the pattern store matching.
ScenarioA(v) ==
    /\ v.kind = "result"
    /\ primary_sources = OfficialPair
    /\ secondary_sources = IndependentOne
    /\ AllMatch(v.primary_responses)
    /\ AllMatch(v.secondary_responses)
    /\ v.pattern_check.passed

\* C15 as stated: in scenario A verify returns VERIFIED with an overall
\* confidence of about 0.967 (within 0.0005 of it).
C15_Original ==
    ScenarioA(verification) =>
        /\ verification.overall_status = "VERIFIED"
        /\ 2000 * verification.overall_confidence >= 1933 * 3 * Scale
        /\ 2000 * verification.overall_confidence <= 1935 * 3 * Scale

\* C15: in scenario A verify returns VERIFIED, the three check confidences
\* are 0.99, 0.92 and 0.8, and the overall confidence is their arithmetic
\* mean, 2.71 / 3 (about 0.903).
C15_ScenarioAVerified ==
    ScenarioA(verification) =>
        /\ verification.overall_status = "VERIFIED"
        /\ 100 * verification.primary_check.confidence = 99 * Scale
        /\ 100 * verification.secondary_check.confidence = 92 * Scale
        /\ 10 * verification.pattern_check.confidence = 8 * Scale
        /\ 100 * verification.overall_confidence = 271 * Scale

\* C15 witness: scenario A has been verified.
C15_Witness ==
    /\ ScenarioA(verification)
    /\ verification.overall_status = "VERIFIED"
    /\ successful_verifications = 1

\* C16: scenario B.  When the adapter reports no match for the secondary
\* sources and the pattern check fails while the primary check passes, the
\* secondary check does not pass, one check in three has passed, the overall
\* confidence is below 0.5, verify returns ESCALATED and escalations goes up
\* by exactly 1.
C16_Original ==
    [][(/\ Verifies
        /\ NoMatch(verification'.secondary_responses)
        /\ ~verification'.pattern_check.passed
        /\ verification'.primary_check.passed) =>
            /\ ~verification'.secondary_check.passed
            /\ Passes(verification') = 1
            /\ 2 * verification'.overall_confidence < 3 * Scale
            /\ verification'.overall_status = "ESCALATED"
            /\ escalations' = escalations + 1]_vars

\* C16 witness: the adapter answered "no match" for every secondary source
\* and the pattern check failed, yet the secondary check passed and verify
\* returned PARTIAL without an escalation.
C16_Witness ==
    /\ verification.kind = "result"
    /\ secondary_sources # <<>>
    /\ NoMatch(verification.secondary_responses)
    /\ ~verification.pattern_check.passed
    /\ verification.primary_check.passed
    /\ verification.secondary_check.passed
    /\ verification.overall_status = "PARTIAL"
    /\ escalations = 0

\* The sources the adapter answered for without raising.
Consulted(responses) == {i \in 1..Len(responses) : responses[i] # "raise"}

\* C17: an exception of the source adapter never aborts verify: every call
\* returns a result, in which the sources used by the primary and by the
\* secondary check are those the adapter did not fail on.
C17_Original ==
    verification.kind # "none" =>
        /\ verification.kind = "result"
        /\ Len(verification.primary_check.sources_used)
              = Cardinality(Consulted(verification.primary_responses))
        /\ Len(verification.secondary_check.sources_used)
              = Cardinality(Consulted(verification.secondary_responses))

\* C17 witness: the adapter raised on the first of two primary sources;
\* verify raised, the second source was never consulted and no verification
\* was counted.
C17_Witness ==
    /\ verification.kind = "raise"
    /\ Len(primary_sources) = 2
    /\ verification.primary_responses = <<"raise">>
    /\ total_verifications = 0

\* The step is a verify of the fact of the call before, the adapters and the
\* pattern store answering as before.
VerifiesAgain ==
    /\ verification.kind = "result"
    /\ verification'.kind = "result"
    /\ verification'.original_data = verification.original_data
    /\ verification'.primary_responses = verification.primary_responses
    /\ verification'.secondary_responses = verification.secondary_responses
    /\ verification'.match = verification.match

NestedKeys == {"votes"}

\* The items of a dict as a set.
Items(d) == {d[i] : i \in 1..Len(d)}

\* The key/value pairs of a record as Python compares them: a value that is
\* a dict is equal to a dict with the same items, in whatever order.
Pairs(d) ==
    {<<d[i][1], IF d[i][1] \in NestedKeys THEN Items(d[i][2]) ELSE d[i][2]>> :
        i \in 1..Len(d)}

\* Two records that differ in nothing but the insertion order of their own
\* keys get the same hash.
TopLevelOrderIndependent ==
    verification.kind # "none" =>
        \A d \in Facts :
            Items(d) = Items(verification.original_data) =>
                hash_data(d) = verification.data_hash

\* C19: the fact hash is order-independent: a record with the same set of
\* key/value pairs as the record verified has the data_hash that verify
\* computed, whatever the insertion order of the keys.
C19_Original ==
    verification.kind # "none" =>
        \A d \in Facts :
            Pairs(d) = Pairs(verification.original_data) =>
                hash_data(d) = verification.data_hash

\* C19 witness: a record whose "votes" were inserted as for, against has
\* been verified; the record with the votes inserted as against, for has
\* the same pairs and another hash.
C19_Witness ==
    /\ verification.kind = "result"
    /\ DictGet(verification.original_data, "votes", <<>>)
          = << <<"for", 312>>, <<"against", 287>> >>
    /\ \E d \in Facts :
          /\ Pairs(d) = Pairs(verification.original_data)
          /\ DictGet(d, "votes", <<>>) = << <<"against", 287>>, <<"for", 312>> >>
          /\ hash_data(d) # verification.data_hash

\* ------------------------------------------------------------------------
\* Claims about the freeze history
\* ------------------------------------------------------------------------
\* C20: FreezeEvent ids are unique: two distinct events of freeze_history
\* have different event_id values, also when the two freezes were triggered
\* within the same second of the clock.
C20_Original ==
    \A i \in 1..Len(freeze_history), j \in 1..Len(freeze_history) :
        i # j => freeze_history[i].event_id # freeze_history[j].event_id

\* C20 witness: a freeze, its unfreeze half a second later and a second
\* freeze, all within one second: the two events have the same event_id.
C20_Witness ==
    /\ BetweenOperations
    /\ Len(freeze_history) = 2
    /\ freeze_history[1].resolved
    /\ freeze_history[1].resolution_time = 1
    /\ ~freeze_history[2].resolved
    /\ freeze_history[1].event_id = freeze_history[2].event_id

\* What an event is created with.
Created(e) ==
    <<e.event_id, e.reason, e.trigger_source, e.affected_components>>

\* C21: freeze_history is append-only.  No step removes or reorders events;
\* the call of trigger_freeze on a system that is not FROZEN appends exactly
\* one event, unresolved, and every other step leaves the length as it was;
\* an event in the history changes only by becoming resolved, in its
\* resolved flag, resolution time and resolution action.
C21_HistoryAppendOnly ==
    [][/\ Len(freeze_history') >= Len(freeze_history)
       /\ \A i \in 1..Len(freeze_history) :
             /\ Created(freeze_history'[i]) = Created(freeze_history[i])
             /\ freeze_history'[i] # freeze_history[i] =>
                   /\ ~freeze_history[i].resolved
                   /\ freeze_history'[i].resolved
       /\ IF state # "FROZEN" /\ \E t \in Tasks : Calls(t, "trigger_freeze")
          THEN /\ Len(freeze_history') = Len(freeze_history) + 1
               /\ ~freeze_history'[Len(freeze_history')].resolved
          ELSE Len(freeze_history') = Len(freeze_history)]_vars

\* C21 witness: two events in the history, both resolved, the first still
\* in first place with the resolution it was given.
C21_Witness ==
    /\ BetweenOperations
    /\ Len(freeze_history) = 2
    /\ freeze_history[1].resolved
    /\ freeze_history[1].resolution_action = "admin"
    /\ freeze_history[1].resolution_time = 0
    /\ freeze_history[2].resolved
    /\ freeze_history[2].resolution_time = 2

\* ------------------------------------------------------------------------
\* Claims about the order of the steps of trigger_freeze
\* ------------------------------------------------------------------------
\* Before its k-th call the task had called `what` on component n.
CalledBefore(tk, k, what, n) ==
    \E j \in 1..(k - 1) : tk.calls[j][1] = what /\ tk.calls[j][2] = n

\* C22: within one trigger_freeze, every pause comes before every health
\* probe and the first probe finds pause already called on every registered
\* component that has one; and before the first recovery action (a resume
\* or a clear_cache) the diagnostics have probed every registered component
\* that has a health_check.
C22_PauseThenDiagnoseThenRecover ==
    \A t \in Tasks :
        task[t].op = "trigger_freeze" =>
            /\ \A i \in CallsOf(task[t], "pause"),
                  j \in CallsOf(task[t], "health_check") : i < j
            /\ \A j \in CallsOf(task[t], "health_check") :
                  \A n \in RegisteredNames :
                      hasattr(n, "pause") =>
                          CalledBefore(task[t], j, "pause", n)
            /\ \A k \in CallsOf(task[t], "resume")
                        \cup CallsOf(task[t], "clear_cache") :
                  \A n \in RegisteredNames :
                      hasattr(n, "health_check") =>
                          CalledBefore(task[t], k, "health_check", n)

\* C22 witness: an API_ERROR freeze of two components has paused both,
\* probed them, cleared a cache and restarted, and has returned with the
\* system FROZEN.
C22_Witness ==
    /\ Finished("t1", "trigger_freeze")
    /\ state = "FROZEN"
    /\ CurrentReason = "API_ERROR"
    /\ CalledOn(task["t1"], "pause") = {"hansard", "veritas"}
    /\ CalledOn(task["t1"], "health_check") = {"hansard", "veritas"}
    /\ CallsOf(task["t1"], "clear_cache") # {}
    /\ CalledOn(task["t1"], "resume") = {"hansard", "veritas"}

\* ------------------------------------------------------------------------
\* Claims about failing components
\* ------------------------------------------------------------------------
ResumeCalled(calls, n) ==
    \E i \in 1..Len(calls) : calls[i][1] = "resume" /\ calls[i][2] = n

\* FreezeProtocol's half of C23: a pause() that raises in _halt_components,
\* or a resume() that raises in the loop of unfreeze, is caught: the
\* component's status becomes ERROR and the loop goes on with the components
\* that remain.
ProtocolToleratesFailures ==
    [][\A t \in Tasks :
        (task[t].pc \in {"halt", "resume"} /\ CallRaised(t)) =>
            /\ component_status'[Head(task[t].iter)] = "ERROR"
            /\ task'[t].pc = task[t].pc
            /\ task'[t].iter = Tail(task[t].iter)]_vars

\* C23: if a component's pause() raises during a freeze, or its resume()
\* raises during an unfreeze, the exception is caught, that component's
\* status is set to ERROR, pause/resume is still invoked on every remaining
\* registered component, and the operation does not raise.  Stated of the
\* freeze and unfreeze of WestminsterWatch.
C23_Original ==
    [][/\ BrainCalls("freeze") =>
              /\ request'.kind # "raise"
              /\ \A n \in Having("pause") : PauseCalled(request'.calls, n)
       /\ (BrainCalls("unfreeze") /\ Truthy(request'.args[1])) =>
              /\ request'.kind # "raise"
              /\ \A n \in Having("resume") : ResumeCalled(request'.calls, n)
       /\ (BrainCalls("freeze") \/ BrainCalls("unfreeze")) =>
              \A i \in 1..Len(request'.calls) :
                  request'.calls[i][3] = "raise" =>
                      arm_status'[request'.calls[i][2]] = "ERROR"]_vars

\* C23 witness: a freeze of the brain has ended with the exception of the
\* first arm's pause(); the arm's status is not ERROR and the second arm's
\* pause() was never called.
C23_Witness ==
    /\ request.op = "freeze"
    /\ request.kind = "raise"
    /\ Len(request.calls) = 1
    /\ request.calls[1][3] = "raise"
    /\ arm_status[request.calls[1][2]] # "ERROR"
    /\ \E n \in Having("pause") : ~PauseCalled(request.calls, n)

ProbeCalled(calls, n) ==
    \E i \in 1..Len(calls) : calls[i][1] = "health_check" /\ calls[i][2] = n

ProbeRaised(calls, n) ==
    \E i \in 1..Len(calls) :
        calls[i][1] = "health_check" /\ calls[i][2] = n /\ calls[i][3] = "raise"

\* FreezeProtocol's half of C24: a health_check that raises in
\* run_diagnostics is caught and the loop goes on with the components that
\* remain; the status recorded is the text 'ERROR: <e>'.
DiagnosticsTolerateFailures ==
    [][\A t \in Tasks :
        (task[t].pc = "diag" /\ CallRaised(t)) =>
            /\ component_status'[Head(task[t].iter)] = "ERROR: e"
            /\ task'[t].pc = "diag"
            /\ task'[t].iter = Tail(task[t].iter)]_vars

\* C24: when a component's health_check raises during a probe, the exception
\* is not propagated to the caller, that component's status is recorded as
\* FAILED, and every other registered component is still probed.  Stated of
\* health_check_all of WestminsterWatch, the status being the one of the
\* report returned.
C24_Original ==
    [][(/\ BrainCalls("health_check_all")
        /\ \E n \in CompNames : ProbeRaised(request'.calls, n)) =>
            /\ request'.kind = "reports"
            /\ \A n \in CompNames :
                  ProbeRaised(request'.calls, n) => request'.reports[n] = "FAILED"
            /\ \A n \in Having("health_check") :
                  ProbeCalled(request'.calls, n)]_vars

\* C24 witness: health_check_all has raised: the first arm's health_check
\* raised, the freeze of the except block raised in its turn, and the second
\* arm was never probed.
C24_Witness ==
    /\ request.op = "health_check_all"
    /\ request.kind = "raise"
    /\ \E n \in CompNames : ProbeRaised(request.calls, n)
    /\ \E n \in Having("health_check") : ~ProbeCalled(request.calls, n)
    /\ \E n \in CompNames : arm_status[n] # Absent /\ arm_status[n] # "FAILED"

\* ------------------------------------------------------------------------
\* Claims about registration
\* ------------------------------------------------------------------------
\* The step registers component n with FreezeProtocol, and the registry and
\* the statuses of the other components are as a registration leaves them.
Registers(t, n, initial) ==
    /\ Keys(components') =
          IF HasKey(components, n) THEN Keys(components)
          ELSE Append(Keys(components), n)
    /\ \A m \in CompNames \ {n} :
          /\ component_status'[m] = component_status[m]
          /\ HasKey(components, m) =>
                Lookup(components', m) = Lookup(components, m)
    /\ component_status'[n] = initial

\* C25 as claimed: registering a component adds it with initial status
\* INITIALIZING, and registering a name that is registered replaces the
\* entry: the number of components does not grow and the status is reset.
C25_Original ==
    [][\A t \in Tasks :
        Calls(t, "register_component") =>
            Registers(t, task'[t].args[1], "INITIALIZING")]_vars

\* C25 as amended: FreezeProtocol.register_component adds the component with
\* initial status ACTIVE, and registering a name that is registered replaces
\* the entry where it stands: the number of components does not grow, the
\* other components keep their entries and statuses, and the status is reset
\* to ACTIVE.
C25_RegisterReplaces ==
    [][\A t \in Tasks :
        Calls(t, "register_component") =>
            Registers(t, task'[t].args[1], "ACTIVE")]_vars

\* WestminsterWatch's half of C25: register_arm adds the arm with status
\* INITIALIZING and replaces the entry of a name that is registered.
ArmRegisterReplaces ==
    [][BrainCalls("register_arm") =>
        LET n == request'.args[1]
        IN  /\ Keys(arms') = IF HasKey(arms, n) THEN Keys(arms)
                             ELSE Append(Keys(arms), n)
            /\ \A m \in CompNames \ {n} : arm_status'[m] = arm_status[m]
            /\ arm_status'[n] = "INITIALIZING"]_vars

\* C25 witness: veritas, registered before hansard and paused by a freeze,
\* has been registered again: it still comes first of two components and its
\* status is ACTIVE while the system is FROZEN and hansard is PAUSED.
C25_Witness ==
    \E t \in Tasks :
        /\ Finished(t, "register_component")
        /\ task[t].args[1] = "veritas"
        /\ Keys(components) = <<"veritas", "hansard">>
        /\ state = "FROZEN"
        /\ component_status["veritas"] = "ACTIVE"
        /\ component_status["hansard"] = "PAUSED"

\* ------------------------------------------------------------------------
\* Claims about unfreeze
\* ------------------------------------------------------------------------
\* The "unfreeze" callbacks sent by the call of task tk so far.
UnfreezeCallbacks(tk) ==
    {i \in CallsOf(tk, "callback") : tk.calls[i][2] = "unfreeze"}

\* C26: a successful unfreeze(auth) from FROZEN records the authorization
\* string as the resolution_action of the current event, resets
\* recovery_attempts to 0, clears current_freeze and leaves the state ACTIVE,
\* and sends exactly one "unfreeze" callback (to the brain callback, when one
\* is set), after the state has become ACTIVE.  Step by step: the call with
\* an authorization on a FROZEN system enters the resume loop; the step that
\* leaves the loop resolves the current event with the authorization, sets
\* ACTIVE, clears the event and the counter, and no callback has been sent
\* yet; the next step sends the one callback with the state ACTIVE and ends
\* the call, which returns True unless the callback raised.
C26_UnfreezeResets ==
    [][\A t \in Tasks :
        /\ (Calls(t, "unfreeze") /\ state = "FROZEN"
                /\ Truthy(task'[t].args[1])) =>
              /\ state' = "RECOVERING"
              /\ task'[t].pc = "resume"
              /\ task'[t].auth = task'[t].args[1]
        /\ (task[t].pc = "resume" /\ task'[t].pc # "resume") =>
              /\ task'[t].pc = "cb_unfreeze"
              /\ Truthy(task[t].auth)
              /\ current_freeze # 0
              /\ freeze_history'[current_freeze].resolved
              /\ freeze_history'[current_freeze].resolution_action = task[t].auth
              /\ state' = "ACTIVE"
              /\ current_freeze' = 0
              /\ recovery_attempts' = 0
              /\ UnfreezeCallbacks(task'[t]) = {}
        /\ (task[t].pc = "cb_unfreeze" /\ task'[t] # task[t]) =>
              /\ state = "ACTIVE" /\ state' = "ACTIVE"
              /\ current_freeze' = 0
              /\ recovery_attempts' = 0
              /\ task'[t].pc = "done"
              /\ Cardinality(UnfreezeCallbacks(task'[t])) =
                    IF brain_callback THEN 1 ELSE 0
              /\ (task'[t].ret.kind = "raise") <=>
                    (\E i \in UnfreezeCallbacks(task'[t]) :
                        task'[t].calls[i][3] = "raise")
              /\ (task'[t].op = "unfreeze" /\ task'[t].ret.kind # "raise") =>
                    (task'[t].ret.kind = "bool" /\ task'[t].ret.bool)
        /\ (UnfreezeCallbacks(task'[t]) \ UnfreezeCallbacks(task[t]) # {}) =>
              task[t].pc = "cb_unfreeze"]_vars

\* C26 witness: unfreeze("admin") has returned True after one "unfreeze"
\* callback; the event is resolved by "admin", the state is ACTIVE, no event
\* is current and recovery_attempts is 0.
C26_Witness ==
    \E t \in Tasks :
        /\ Finished(t, "unfreeze")
        /\ task[t].args = <<"admin">>
        /\ task[t].ret.kind = "bool" /\ task[t].ret.bool
        /\ Cardinality(UnfreezeCallbacks(task[t])) = 1
        /\ state = "ACTIVE"
        /\ current_freeze = 0
        /\ recovery_attempts = 0
        /\ Len(freeze_history) = 1
        /\ freeze_history[1].resolved
        /\ freeze_history[1].resolution_action = "admin"

\* ------------------------------------------------------------------------
\* Claims about the diagnostic report
\* ------------------------------------------------------------------------
\* The reports a task holds: the one of trigger_freeze, the one of the
\* auto-recovery, and the one returned by run_diagnostics.
ReportsOf(tk) ==
    {r \in {tk.diagnostics, tk.post_diagnostics, tk.ret.report} : r.valid}

\* The table of the claim.
RecommendedFor ==
    [r \in FreezeReason |->
        IF r = "ARM_FAILURE" THEN <<"RESTART_ARM">>
        ELSE IF r = "DATA_INTEGRITY" THEN <<"ROLLBACK_DATA", "HUMAN_REVIEW">>
        ELSE IF r = "API_ERROR" THEN <<"CLEAR_CACHE", "RESTART_ARM">>
        ELSE IF r = "SECURITY_CONCERN" THEN <<"FULL_DIAGNOSTIC", "HUMAN_REVIEW">>
        ELSE <<"FULL_DIAGNOSTIC">>]

\* C27: the recommended actions of a diagnostic report depend on the reason
\* of the current freeze alone: ARM_FAILURE gives [restart], DATA_INTEGRITY
\* [rollback, human review], API_ERROR [clear cache, restart],
\* SECURITY_CONCERN [full diagnostic, human review], any other reason [full
\* diagnostic]; the list is empty when there is no current freeze.
C27_RecommendedActions ==
    \A t \in Tasks : \A r \in ReportsOf(task[t]) :
        r.recommended_actions =
            IF r.freeze_event = 0 THEN <<>>
            ELSE RecommendedFor[freeze_history[r.freeze_event].reason]

\* C27 witness: run_diagnostics, called on a system frozen for an API_ERROR,
\* has returned a report recommending clear cache, then restart.
C27_Witness ==
    \E t \in Tasks :
        /\ Finished(t, "run_diagnostics")
        /\ task[t].ret.kind = "report"
        /\ task[t].ret.report.freeze_event # 0
        /\ freeze_history[task[t].ret.report.freeze_event].reason = "API_ERROR"
        /\ task[t].ret.report.recommended_actions = <<"CLEAR_CACHE", "RESTART_ARM">>

\* A report made with no current freeze recommends nothing.
NothingRecommendedWhenActive ==
    \E t \in Tasks :
        /\ Finished(t, "run_diagnostics")
        /\ task[t].ret.report.freeze_event = 0
        /\ task[t].ret.report.recommended_actions = <<>>

\* The registered components whose last probe by task t answered ACTIVE.
ProbedActive(t) ==
    {n \in RegisteredNames : LastOutcome(t, "health_check", n) = "ACTIVE"}

\* C28: the integrity score of a diagnostics run is the number of components
\* whose re-probed status is ACTIVE over the number of registered
\* components, and 0.0 when none is registered.  At the end of every run the
\* report carries these two counts; the run that follows the recovery
\* actions leads to unfreeze exactly when the score is at least 0.8, so a
\* freeze with no component registered is never recovered automatically.
C28_IntegrityScore ==
    [][\A t \in Tasks :
        (task[t].pc = "diag" /\ task[t].iter = <<>> /\ task'[t] # task[t]) =>
            LET active == Cardinality(ProbedActive(t))
                total == Cardinality(RegisteredNames)
            IN  /\ (task'[t].pc = "done" /\ task'[t].op = "run_diagnostics") =>
                      /\ task'[t].ret.kind = "report"
                      /\ task'[t].ret.report.active = active
                      /\ task'[t].ret.report.total = total
                /\ task'[t].pc = "recover" =>
                      /\ task'[t].diagnostics.active = active
                      /\ task'[t].diagnostics.total = total
                /\ AtPostDiagnostics(task[t]) =>
                      (task'[t].pc = "resume" <=>
                          (total > 0 /\ 10 * active >= 8 * total))
                /\ total = 0 => task'[t].pc # "resume"]_vars

\* C28 witness: an ARM_FAILURE freeze of a system with no component: the
\* recovery was attempted, its restart had nothing to do, the score was 0.0
\* and trigger_freeze returned with the system FROZEN.
C28_Witness ==
    \E t \in Tasks :
        /\ Finished(t, "trigger_freeze")
        /\ task[t].ret.kind = "event"
        /\ components = <<>>
        /\ recovery_attempts = 1
        /\ state = "FROZEN"
        /\ current_freeze # 0
        /\ freeze_history[current_freeze].reason = "ARM_FAILURE"

\* One component of two probed ACTIVE after the recovery actions: the score
\* is 0.5 and the system stays FROZEN.
HalfActiveStaysFrozen ==
    \E t \in Tasks :
        /\ Finished(t, "trigger_freeze")
        /\ Cardinality(RegisteredNames) = 2
        /\ Cardinality(ProbedActive(t)) = 1
        /\ recovery_attempts = 1
        /\ state = "FROZEN"
        /\ CallsOf(task[t], "resume") # {}
        /\ \A i \in CallsOf(task[t], "resume") : task[t].calls[i][3] = "ok"

\* ------------------------------------------------------------------------
\* Claims about the counters and the audit trail of verify
\* ------------------------------------------------------------------------
\* C29: every completed verify adds exactly 1 to total_verifications, adds 1
\* to successful_verifications if and only if its status is VERIFIED and 1
\* to escalations if and only if its status is ESCALATED; nothing else
\* changes a counter (a verify that raises leaves them as they were), so no
\* counter ever decreases.
C29_CountersFollowStatus ==
    [][/\ verification'.kind = "result" =>
              /\ total_verifications' = total_verifications + 1
              /\ successful_verifications' =
                    IF verification'.overall_status = "VERIFIED"
                    THEN successful_verifications + 1
                    ELSE successful_verifications
              /\ escalations' =
                    IF verification'.overall_status = "ESCALATED"
                    THEN escalations + 1
                    ELSE escalations
       /\ verification'.kind # "result" =>
              UNCHANGED <<total_verifications, successful_verifications,
                          escalations>>
       /\ total_verifications' >= total_verifications
       /\ successful_verifications' >= successful_verifications
       /\ escalations' >= escalations]_vars

\* C29 witness: two verifications are done, one VERIFIED and then one
\* ESCALATED: the counters are 2, 1 and 1.
C29_Witness ==
    /\ verification.kind = "result"
    /\ verification.overall_status = "ESCALATED"
    /\ total_verifications = 2
    /\ successful_verifications = 1
    /\ escalations = 1

\* A verify that raised after one that completed: the counters are those of
\* the first.
RaisedLeavesCounters ==
    /\ verification.kind = "raise"
    /\ total_verifications = 1

\* C30: the audit trail of a completed verify is, in this order: the start
\* entry, the entries of the primary, the secondary and the pattern check
\* (each PASS or FAIL as the check went), the ESCALATED entry if and only if
\* the status is ESCALATED, and the entry of the final status, last.
C30_AuditTrailOrder ==
    verification.kind = "result" =>
        LET c == verification.verification_chain
            esc == verification.overall_status = "ESCALATED"
            word(check) == IF check.passed THEN "PASS" ELSE "FAIL"
        IN  /\ Len(c) = IF esc THEN 6 ELSE 5
            /\ c[1] = "Verification started"
            /\ c[2] = <<"Primary check", word(verification.primary_check)>>
            /\ c[3] = <<"Secondary check", word(verification.secondary_check)>>
            /\ c[4] = <<"Pattern check", word(verification.pattern_check)>>
            /\ esc => c[5] = "ESCALATED: Requires human review"
            /\ c[Len(c)] = <<"Final status", verification.overall_status>>

\* C30 witness: an ESCALATED verification, whose trail has six entries, the
\* fifth being the escalation and the sixth the final status.
C30_Witness ==
    /\ verification.kind = "result"
    /\ verification.overall_status = "ESCALATED"
    /\ Len(verification.verification_chain) = 6
    /\ verification.verification_chain[5] = "ESCALATED: Requires human review"
    /\ verification.verification_chain[6] = <<"Final status", "ESCALATED">>

\* A trail without escalation: five entries, the checks not all alike.
TrailOfPartial ==
    /\ verification.kind = "result"
    /\ verification.overall_status = "PARTIAL"
    /\ Len(verification.verification_chain) = 5
    /\ verification.verification_chain[2][2] # verification.verification_chain[4][2]

\* ------------------------------------------------------------------------
\* Claims about the verification path and the supervisory state
\* ------------------------------------------------------------------------
\* TripleCheckProtocol's half of C31: a step of verify changes the counters
\* and the outcome of TripleCheckProtocol and nothing of FreezeProtocol or of
\* the brain.
VerifyLeavesSupervision ==
    [][(verification' # verification) =>
            UNCHANGED <<fpvars, brainvars, primary_sources,
                        secondary_sources>>]_vars

\* C31: the verification path never changes supervisory state: a
\* triple_check of WestminsterWatch, successful or rejected, leaves the arms,
\* every arm's status, the frozen flag and its reason, and the state, the
\* current freeze, the history and the component statuses of FreezeProtocol
\* as they were; a successful one changes the verification counters alone.
C31_VerificationLeavesSupervision ==
    [][BrainCalls("triple_check") =>
        /\ UNCHANGED <<arms, arm_status, frozen, freeze_reason>>
        /\ UNCHANGED <<state, current_freeze, freeze_history,
                       component_status, components, recovery_attempts>>
        /\ request'.kind \in {"result", "raise"}
        /\ request'.kind = "result" =>
              /\ ~frozen
              /\ verifications_total' = verifications_total + 1
              /\ verifications_passed' =
                    IF request'.result.status = "VERIFIED"
                    THEN verifications_passed + 1
                    ELSE verifications_passed
        /\ request'.kind = "raise" =>
              UNCHANGED <<verifications_total, verifications_passed>>]_vars

\* C31 witness: a triple_check whose three checks failed has returned its
\* FAILED result; the brain is not frozen and the arm probed before is still
\* ACTIVE.
C31_Witness ==
    /\ request.op = "triple_check"
    /\ request.kind = "result"
    /\ request.result.status = "FAILED"
    /\ verifications_total >= 1
    /\ ~frozen
    /\ \E n \in CompNames : arm_status[n] = "ACTIVE"

\* ------------------------------------------------------------------------
\* SpecInterleaved: the coroutines of FreezeProtocol interleaved at their
\* awaits.  The operations are coroutines of one event loop: from one await
\* to the next a coroutine runs alone, and while it waits for a component's
\* pause, health_check, resume or clear_cache, or for the callback, another
\* call of trigger_freeze or unfreeze may start or go on.  The registry is
\* filled while nothing runs.
\* ------------------------------------------------------------------------
InterleavedRegisterInputs == {<<"hansard", CachedArm>>}
InterleavedReasonInputs == {"API_ERROR"}
InterleavedAuthorizations == {"admin"}

\* The coroutine is waiting for a collaborator: its next step is the return
\* of an awaited call.
AtAwait(tk) ==
    \/ /\ tk.pc \in {"halt", "diag", "restart", "clear", "resume"}
       /\ tk.iter # <<>>
       /\ HasKey(components, Head(tk.iter))
       /\ hasattr(Head(tk.iter),
                  CASE tk.pc = "halt" -> "pause"
                    [] tk.pc = "diag" -> "health_check"
                    [] tk.pc = "clear" -> "clear_cache"
                    [] OTHER -> "resume")
    \/ tk.pc \in {"cb_freeze", "cb_unfreeze"} /\ brain_callback

\* Task t may run: every other coroutine is waiting, or not under way.
Runnable(t) ==
    \A u \in Tasks \ {t} :
        task[u].pc \in {"idle", "done"} \/ AtAwait(task[u])

\* Task t1 is a caller that freezes and unfreezes, t2 one that freezes.
FPStart(t) ==
    \/ \E c \in InterleavedRegisterInputs :
            Quiescent /\ FPOnly /\ register_component(t, c[1], c[2])
    \/ \E r \in InterleavedReasonInputs, src \in TriggerSources :
            /\ task[t].pc = "idle" /\ Runnable(t) /\ FPOnly
            /\ AlreadyFrozen \/ Len(freeze_history) < MaxEvents
            /\ trigger_freeze(t, r, src, <<>>)
    \/ \E auth \in InterleavedAuthorizations :
            /\ t = "t1"
            /\ task[t].pc = "idle" /\ Runnable(t) /\ FPOnly
            /\ unfreeze(t, auth)

FPStepInterleaved(t) ==
    \/ Runnable(t) /\ FPOnly /\ HaltStep(t)
    \/ Runnable(t) /\ FPOnly /\ HaltDone(t)
    \/ Runnable(t) /\ FPOnly /\ CallbackFreeze(t)
    \/ Runnable(t) /\ FPOnly /\ DiagStep(t)
    \/ Runnable(t) /\ FPOnly /\ DiagDone(t)
    \/ Runnable(t) /\ FPOnly /\ AttemptAutoRecovery(t)
    \/ Runnable(t) /\ FPOnly /\ ActStep(t)
    \/ Runnable(t) /\ FPOnly /\ RestartStep(t)
    \/ Runnable(t) /\ FPOnly /\ ClearStep(t)
    \/ Runnable(t) /\ FPOnly /\ ActionDone(t)
    \/ Runnable(t) /\ FPOnly /\ ResumeStep(t)
    \/ Runnable(t) /\ FPOnly /\ ResumeDone(t)
    \/ Runnable(t) /\ FPOnly /\ CallbackUnfreeze(t)
    \/ Runnable(t) /\ FPOnly /\ TakeResult(t)

InitInterleaved == Init /\ brain_callback

NextInterleaved ==
    \/ \E t \in Tasks : FPStart(t)
    \/ \E t \in Tasks : FPStepInterleaved(t)

SpecInterleaved == InitInterleaved /\ [][NextInterleaved]_vars

\* ------------------------------------------------------------------------
\* Claims about the states of FreezeProtocol
\* ------------------------------------------------------------------------
\* The step is the first of a trigger_freeze that freezes.
Freezes(t) == Calls(t, "trigger_freeze") /\ task'[t].pc = "halt"

\* The step takes task t into the resume loop of an unfreeze whose
\* authorization is not empty.
EntersUnfreeze(t) ==
    /\ task[t].pc # "resume"
    /\ task'[t].pc = "resume"
    /\ Truthy(task'[t].auth)

\* The step takes task t out of the resume loop of unfreeze.
LeavesUnfreeze(t) == task[t].pc = "resume" /\ task'[t].pc = "cb_unfreeze"

\* C32: the state of FreezeProtocol starts at ACTIVE and changes only from
\* ACTIVE to FROZEN, by a trigger_freeze, from FROZEN to RECOVERING and from
\* RECOVERING to ACTIVE, both inside one unfreeze with a non-empty
\* authorization; there is no other transition and MAINTENANCE is never
\* entered.
C32_StateTransitions ==
    [][/\ state' # "MAINTENANCE"
       /\ state' # state =>
            \/ /\ state = "ACTIVE" /\ state' = "FROZEN"
               /\ \E t \in Tasks : Freezes(t)
            \/ /\ state = "FROZEN" /\ state' = "RECOVERING"
               /\ \E t \in Tasks : EntersUnfreeze(t)
            \/ /\ state = "RECOVERING" /\ state' = "ACTIVE"
               /\ \E t \in Tasks : LeavesUnfreeze(t)]_vars

\* C32 witness: the cycle has been gone through once and is on its second
\* turn: the first event is resolved and the unfreeze of the second is in
\* its resume loop, the state RECOVERING.
C32_Witness ==
    /\ Len(freeze_history) = 2
    /\ freeze_history[1].resolved
    /\ current_freeze = 2
    /\ state = "RECOVERING"
    /\ \E t \in Tasks : task[t].pc = "resume" /\ Truthy(task[t].auth)

\* With the calls interleaved at the awaits the transitions are not the
\* three of C32: while an unfreeze waits in its resume loop, the state
\* RECOVERING, a trigger_freeze sets the state to FROZEN again with a new
\* current event, and the unfreeze then goes from FROZEN to ACTIVE.
RefrozenWhileRecovering ==
    \E t, u \in Tasks :
        /\ task[t].op = "unfreeze" /\ task[t].pc = "resume"
        /\ task[u].op = "trigger_freeze" /\ task[u].pc = "halt"
        /\ state = "FROZEN"
        /\ current_freeze = 2
        /\ ~freeze_history[1].resolved

\* ------------------------------------------------------------------------
\* SpecSnapshot: the operations of FreezeProtocol run to completion, one
\* after the other, by callers that may keep what an operation returned to
\* them while the next operations run.
\* ------------------------------------------------------------------------
SnapshotRegisterInputs == {<<"hansard", CachedArm>>}
SnapshotReasonInputs == {"API_ERROR", "SECURITY_CONCERN"}
SnapshotAuthorizations == {"admin"}

\* Task t may call: it holds no result and no coroutine is under way.
Free(t) ==
    /\ task[t].pc = "idle"
    /\ \A u \in Tasks : task[u].pc \in {"idle", "done"}

FPCallSnapshot(t) ==
    \/ \E c \in SnapshotRegisterInputs :
            Free(t) /\ FPOnly /\ register_component(t, c[1], c[2])
    \/ \E r \in SnapshotReasonInputs, src \in TriggerSources :
            /\ Free(t) /\ FPOnly
            /\ AlreadyFrozen \/ Len(freeze_history) < MaxHistory
            /\ trigger_freeze(t, r, src, <<>>)
    \/ \E auth \in SnapshotAuthorizations :
            Free(t) /\ FPOnly /\ unfreeze(t, auth)
    \/ Free(t) /\ FPOnly /\ run_diagnostics(t)

NextSnapshot ==
    \/ \E t \in Tasks : FPCallSnapshot(t)
    \/ \E t \in Tasks : FPStep(t)

SpecSnapshot == Init /\ [][NextSnapshot]_vars

\* ------------------------------------------------------------------------
\* Claims about the report of run_diagnostics
\* ------------------------------------------------------------------------
\* Task t holds the report that run_diagnostics returned to it.
HoldsReport(t) ==
    /\ Finished(t, "run_diagnostics")
    /\ task[t].ret.kind = "report"

\* C33: each run_diagnostics returns a fresh, independent snapshot: once a
\* report is returned, no later operation changes a value reachable from it,
\* its component statuses and the resolved flag of its freeze event
\* included.  The report's freeze_event is the event object of the history.
C33_Original ==
    [][\A t \in Tasks :
        (HoldsReport(t) /\ task'[t] = task[t]
            /\ task[t].ret.report.freeze_event # 0) =>
            freeze_history'[task[t].ret.report.freeze_event] =
                freeze_history[task[t].ret.report.freeze_event]]_vars

\* C33 witness: a report returned while the system was FROZEN, with its
\* event unresolved, is still held after an unfreeze: the system_state of
\* the report is FROZEN and its event is now resolved.
C33_Witness ==
    \E t \in Tasks :
        /\ HoldsReport(t)
        /\ task[t].ret.report.system_state = "FROZEN"
        /\ task[t].ret.report.freeze_event # 0
        /\ freeze_history[task[t].ret.report.freeze_event].resolved
        /\ state = "ACTIVE"

\* The part of C33 that holds: the component statuses of a held report are
\* a copy, and stay what they were when it was made whatever is paused,
\* resumed or probed later.
ReportStatusesAreACopy ==
    \E t \in Tasks :
        /\ HoldsReport(t)
        /\ \E n \in CompNames :
              /\ task[t].ret.report.component_status[n] # Absent
              /\ task[t].ret.report.component_status[n] # component_status[n]

\* ------------------------------------------------------------------------
\* Claims about the operations run to completion
\* ------------------------------------------------------------------------
\* C34: when the public operations of FreezeProtocol run to completion, with
\* the default configuration, recovery_attempts is always 0 or 1: the
\* counter is raised only from 0, by the trigger_freeze that made the
\* current event, at most once in that call, and it is 0 whenever the state
\* is ACTIVE.
C34_AtMostOneAttempt ==
    [][/\ recovery_attempts' \in {0, 1}
       /\ state' = "ACTIVE" => recovery_attempts' = 0
       /\ recovery_attempts' > recovery_attempts =>
            /\ recovery_attempts = 0
            /\ state = "FROZEN"
            /\ \E t \in Tasks :
                  /\ task[t].pc = "recover"
                  /\ task[t].op = "trigger_freeze"
                  /\ task[t].ev = current_freeze
                  /\ task'[t].pc # "recover"]_vars

\* C34 witness: the second API_ERROR freeze in a row has had its failed
\* attempt, as the first had: the counter is 1 again, not 2.
C34_Witness ==
    /\ BetweenOperations
    /\ Len(freeze_history) = 2
    /\ freeze_history[1].reason = "API_ERROR"
    /\ freeze_history[2].reason = "API_ERROR"
    /\ state = "FROZEN"
    /\ recovery_attempts = 1

\* C35: between operations the state is FROZEN if and only if current_freeze
\* is set; when it is set, the current event is unresolved and is the last
\* of freeze_history; and the state is never RECOVERING between operations.
C35_FrozenIffCurrentFreeze ==
    BetweenOperations =>
        /\ (state = "FROZEN") <=> (current_freeze # 0)
        /\ current_freeze # 0 =>
              /\ current_freeze = Len(freeze_history)
              /\ ~freeze_history[current_freeze].resolved
        /\ state # "RECOVERING"

\* C35 witness: between operations, a second freeze is current and
\* unresolved, last of a history whose first event is resolved.
C35_Witness ==
    /\ BetweenOperations
    /\ state = "FROZEN"
    /\ Len(freeze_history) = 2
    /\ current_freeze = 2
    /\ freeze_history[1].resolved
    /\ ~freeze_history[2].resolved

\* The step is the return of its event by a trigger_freeze of task t that
\* found the system not FROZEN.
ReturnsNewEvent(t) ==
    /\ task[t].op = "trigger_freeze"
    /\ task[t].pc \notin {"idle", "done"}
    /\ task'[t].pc = "done"
    /\ task'[t].ret.kind = "event"

\* C36: when a trigger_freeze called from ACTIVE returns, exactly one of two
\* outcomes holds: the state is FROZEN and the returned event is the current
\* freeze, unresolved; or the auto-recovery succeeded, the state is ACTIVE,
\* current_freeze is cleared and the returned event is resolved with
\* resolution_action "auto_recovery".
C36_TwoOutcomes ==
    [][\A t \in Tasks :
        ReturnsNewEvent(t) =>
            LET e == task'[t].ret.event
                stays == /\ state' = "FROZEN"
                         /\ current_freeze' = e
                         /\ ~freeze_history'[e].resolved
                recovered == /\ state' = "ACTIVE"
                             /\ current_freeze' = 0
                             /\ freeze_history'[e].resolved
                             /\ freeze_history'[e].resolution_action
                                    = "auto_recovery"
            IN  /\ e \in 1..Len(freeze_history')
                /\ stays \/ recovered
                /\ ~(stays /\ recovered)]_vars

\* C36 witness: a trigger_freeze for an ARM_FAILURE has returned an event
\* that the auto-recovery has already resolved; the state is ACTIVE and no
\* freeze is current.
C36_Witness ==
    \E t \in Tasks :
        /\ Finished(t, "trigger_freeze")
        /\ task[t].ret.kind = "event"
        /\ task[t].args = <<"ARM_FAILURE">>
        /\ freeze_history[task[t].ret.event].resolved
        /\ freeze_history[task[t].ret.event].resolution_action = "auto_recovery"
        /\ state = "ACTIVE"
        /\ current_freeze = 0

\* The other outcome: the returned event is current and unresolved after a
\* recovery that was attempted and failed.
ReturnedStillFrozen ==
    \E t \in Tasks :
        /\ Finished(t, "trigger_freeze")
        /\ task[t].ret.kind = "event"
        /\ task[t].ret.event = current_freeze
        /\ ~freeze_history[current_freeze].resolved
        /\ state = "FROZEN"
        /\ recovery_attempts = 1

\* ------------------------------------------------------------------------
\* Claims about interleaved calls of FreezeProtocol
\* ------------------------------------------------------------------------
\* Task u is inside a trigger_freeze that created the event that is still
\* the current freeze, the system being FROZEN since.
FreezeUnderWay(u) ==
    /\ task[u].op = "trigger_freeze"
    /\ task[u].pc \notin {"idle", "done"}
    /\ state = "FROZEN"
    /\ current_freeze = task[u].ev

\* C37: two trigger_freeze calls interleaved at the awaits create one
\* FreezeEvent while the system stays FROZEN: the state is FROZEN before the
\* first call suspends, so the second call returns the first's event at once
\* and appends nothing to the history.
C37_OneFreezeEvent ==
    [][\A t, u \in Tasks :
        (t # u /\ FreezeUnderWay(u) /\ Calls(t, "trigger_freeze")) =>
            /\ freeze_history' = freeze_history
            /\ current_freeze' = current_freeze
            /\ state' = "FROZEN"
            /\ task'[t].pc = "done"
            /\ task'[t].ret.kind = "event"
            /\ task'[t].ret.event = task[u].ev]_vars

\* Every trigger_freeze that is suspended at its first await, the pause of
\* a component, has set the state and the current freeze before: the event
\* it created is in the history.
FrozenBeforeSuspension ==
    [][\A t \in Tasks :
        Freezes(t) =>
            /\ state' = "FROZEN"
            /\ current_freeze' = task'[t].ev
            /\ Len(freeze_history') = Len(freeze_history) + 1]_vars

\* C37 witness: while one trigger_freeze waits for the pause of a component
\* the other has returned, with the one event of the history.
C37_Witness ==
    \E t, u \in Tasks :
        /\ t # u
        /\ FreezeUnderWay(u)
        /\ task[u].pc = "halt"
        /\ AtAwait(task[u])
        /\ Finished(t, "trigger_freeze")
        /\ task[t].ret.kind = "event"
        /\ task[t].ret.event = task[u].ev
        /\ Len(freeze_history) = 1

\* C38 as stated: a trigger_freeze that runs while an unfreeze is suspended
\* in its resume loop never leaves an orphaned freeze: in every reachable
\* state each event other than the current freeze is resolved, and in the
\* state ACTIVE no event is unresolved.
C38_Original ==
    /\ Unresolved \subseteq {current_freeze}
    /\ state = "ACTIVE" => Unresolved = {}

\* C38 witness: the unfreeze that was suspended in its resume loop has
\* returned true and the trigger_freeze that ran meanwhile has returned its
\* event; the system is ACTIVE with no current freeze, the second event was
\* resolved in place of the first, and the first is left unresolved for good.
C38_Witness ==
    \E t, u \in Tasks :
        /\ Finished(t, "unfreeze")
        /\ task[t].ret.kind = "bool" /\ task[t].ret.bool
        /\ Finished(u, "trigger_freeze")
        /\ task[u].ret.kind = "event"
        /\ task[u].ret.event = 2
        /\ state = "ACTIVE"
        /\ current_freeze = 0
        /\ Unresolved = {1}
        /\ freeze_history[2].resolution_action = "admin"

\* ------------------------------------------------------------------------
\* Claims about the end of a manual unfreeze
\* ------------------------------------------------------------------------
\* Task t is inside an unfreeze that has passed the two refusals: the state
\* was FROZEN and the authorization is not empty.
Unfreezing(t) ==
    /\ task[t].op = "unfreeze"
    /\ task[t].pc \in {"resume", "cb_unfreeze"}

\* The components whose resume() the task called and saw raise.
ResumeRaised(tk) ==
    {tk.calls[i][2] : i \in {j \in CallsOf(tk, "resume") : tk.calls[j][3] = "raise"}}

\* C39 as stated: a manual unfreeze with a non-empty authorization always
\* gets the system out of FROZEN: as each call it makes returns or raises,
\* it ends, returns true and leaves the state ACTIVE, even if resume()
\* raises for every component, which leaves those components in ERROR.
C39_Original ==
    [][\A t \in Tasks :
        (Unfreezing(t) /\ task'[t].pc = "done") =>
            /\ task'[t].ret.kind = "bool"
            /\ task'[t].ret.bool
            /\ state' = "ACTIVE"
            /\ \A n \in ResumeRaised(task'[t]) : component_status'[n] = "ERROR"]_vars

\* What holds of the end of every manual unfreeze, a raise of the callback
\* included: the state is ACTIVE, no freeze is current and every component
\* whose resume() raised is in ERROR.
UnfreezeLeavesFrozen ==
    [][\A t \in Tasks :
        (Unfreezing(t) /\ task'[t].pc = "done") =>
            /\ task'[t].ret.kind \in {"bool", "raise"}
            /\ task'[t].ret.kind = "bool" => task'[t].ret.bool
            /\ state' = "ACTIVE"
            /\ current_freeze' = 0
            /\ \A n \in ResumeRaised(task'[t]) : component_status'[n] = "ERROR"]_vars

\* Each step of a manual unfreeze shortens what is left of it: the resume
\* loop loses a component or is left for the callback, and the callback is
\* the last step. The loop is over the registered components, so the call
\* ends after as many steps as there are, and two more.
UnfreezeProgress ==
    [][\A t \in Tasks :
        (Unfreezing(t) /\ task'[t] # task[t]) =>
            \/ /\ task[t].pc = "resume" /\ task'[t].pc = "resume"
               /\ Len(task'[t].iter) < Len(task[t].iter)
            \/ /\ task[t].pc = "resume" /\ task[t].iter = <<>>
               /\ task'[t].pc = "cb_unfreeze"
            \/ /\ task[t].pc = "cb_unfreeze" /\ task'[t].pc = "done"]_vars

\* C39 witness: resume() raised for every one of two registered components,
\* both are in ERROR and the state is ACTIVE, and the unfreeze has ended
\* with the exception of the callback instead of returning true.
C39_Witness ==
    \E t \in Tasks :
        /\ Finished(t, "unfreeze")
        /\ Truthy(task[t].args[1])
        /\ task[t].ret.kind = "raise"
        /\ Len(components) = 2
        /\ ResumeRaised(task[t]) = RegisteredNames
        /\ \A n \in RegisteredNames : component_status[n] = "ERROR"
        /\ state = "ACTIVE"
        /\ current_freeze = 0

\* The same end with a callback that returns: the unfreeze returns true.
UnfreezeReturnsTrueAfterRaises ==
    \E t \in Tasks :
        /\ Finished(t, "unfreeze")
        /\ task[t].ret.kind = "bool" /\ task[t].ret.bool
        /\ ResumeRaised(task[t]) = RegisteredNames
        /\ RegisteredNames # {}
        /\ \A n \in RegisteredNames : component_status[n] = "ERROR"
        /\ state = "ACTIVE"

\* ------------------------------------------------------------------------
\* Claims about the health checks of active arms
\* ------------------------------------------------------------------------
\* What the health_check of an arm that is active hands back: a report of
\* status ACTIVE, or, from HansardArm and VeritasArm, a dict whose "status"
\* entry is "ACTIVE".
ActiveOutcomes == {"ACTIVE", "dict"}

\* Every health_check recorded in the calls was the one of an active arm.
ProbesOfActiveArms(calls) ==
    \A i \in 1..Len(calls) :
        calls[i][1] = "health_check" => calls[i][3] \in ActiveOutcomes

\* C40 as stated: health_check_all freezes the brain only if the health
\* check of some arm reports FAILED or raises: with the Hansard and Veritas
\* arms registered and active, health_check_all leaves the brain unfrozen,
\* pauses no arm and records the status ACTIVE for each arm.
C40_Original ==
    [][(/\ ~frozen
        /\ Having("health_check") = {"hansard", "veritas"}
        /\ BrainCalls("health_check_all")
        /\ ProbesOfActiveArms(request'.calls)) =>
            /\ request'.kind = "reports"
            /\ ~frozen'
            /\ \A n \in Having("pause") : ~PauseCalled(request'.calls, n)
            /\ \A n \in Having("health_check") :
                  /\ arm_status'[n] = "ACTIVE"
                  /\ request'.reports[n] = "ACTIVE"]_vars

\* With arms whose health_check returns an ArmHealthReport the statement
\* holds: reports of ACTIVE for every arm leave the brain as it was.
ActiveReportsDoNotFreeze ==
    [][(/\ ~frozen
        /\ Having("health_check") = {"hansard", "veritas"}
        /\ BrainCalls("health_check_all")
        /\ \A i \in 1..Len(request'.calls) :
              request'.calls[i][1] = "health_check" =>
                  request'.calls[i][3] = "ACTIVE") =>
            /\ request'.kind = "reports"
            /\ ~frozen'
            /\ \A n \in Having("pause") : ~PauseCalled(request'.calls, n)
            /\ \A n \in Having("health_check") :
                  /\ arm_status'[n] = "ACTIVE"
                  /\ request'.reports[n] = "ACTIVE"]_vars

\* C40 witness: both arms are registered and each handed back its dict;
\* health_check_all has returned a FAILED report for each, the brain is
\* frozen and both arms have been paused, no pause() having raised.
C40_Witness ==
    /\ request.op = "health_check_all"
    /\ request.kind = "reports"
    /\ Having("health_check") = {"hansard", "veritas"}
    /\ \A n \in Having("health_check") :
          /\ \E i \in 1..Len(request.calls) :
                request.calls[i] = <<"health_check", n, "dict">>
          /\ request.reports[n] = "FAILED"
          /\ arm_status[n] = "PAUSED"
    /\ ProbesOfActiveArms(request.calls)
    /\ \A i \in 1..Len(request.calls) : request.calls[i][3] # "raise"
    /\ frozen

====
